---- MODULE Spec2Model ----
(***************************************************************************)
(* Plinko round engine: per-market lease, round scheduler, circuit         *)
(* breaker, wager ledger and payout pipeline, modelled from the services   *)
(* under src/.  Time is discrete; one unit is UnitMs milliseconds and      *)
(* every duration of the code is kept in milliseconds and converted with   *)
(* Units().  All clocks are countdowns (time left), so that the state      *)
(* space is finite without a global clock.                                 *)
(***************************************************************************)
EXTENDS Integers, Sequences, FiniteSets, TLC

\* ------------------------------------------------------------ constants
UnitMs == 5 * 1000

LeaseTtlMs == 10000
NotLeaderDelayMs == 5000
UnhealthyDelayMs == 2000
RetryDelayMs == 1000
ErrorDelayMs == 5000
WaitTickMs == 1000

BettingTimeMs == 20000
AccumulationTimeMs == 10000
DroppingTimeMs == 10000
PayoutTimeMs == 5000

Units(ms) == ms \div UnitMs

\* config.plinko: rtpLimitPlayCount (LIMIT_PLAYCOUNT), rtpThresholdPlayCount
\* (THRESHOLD_PLAYCOUNT) and desiredRTP (DESIRED_RTP, 96.5 percent) in tenths.
RtpLimitPlayCount == 1000
RtpThresholdPlayCount == 100
MaxStocksPerBet == 20
DesiredRTPTenths == 965

\* ------------------------------------------------------------ bounds
\* Number of recordBet calls.
NumRecCalls == 3
RecCalls == 1..NumRecCalls
NumCallers == 3
NumIdValues == 2

\* The value of a key that is not set (Redis nil).
None == 0

NumInstances == 2
MaxRounds == 1
MaxBets == 2
MaxAmount == 2

Callers == 1..NumCallers
IdValues == 1..NumIdValues
Instances == 1..NumInstances
Rounds == 1..MaxRounds
Txs == 1..MaxBets

\* instanceId = os.hostname() + '-' + uuidv4(): distinct per instance.
InstanceId(i) == i

\* The player of each placeBet call (tenantPlayerId of its session): the
\* first two calls are one player's, further calls another's.
PlayerOf(t) == IF t <= 2 THEN 1 ELSE 2
Players == {PlayerOf(t) : t \in Txs}

NumSymbols == 3
Symbols == 1..NumSymbols

VARIABLES
    lease,      \* lock:gameloop:{M}: [value, ttl]; value = None when unset
    callerId,   \* lease spec: the holder value each caller presents
    lockRes,    \* lease spec: result of each caller's last call in this TTL window
    lockLog,    \* lease spec: the last call: caller, value, result, key before/after
    active,     \* per instance: the module is running (onModuleInit done)
    snap,       \* latest market snapshot: "absent", "stale" or "fresh"
    market,     \* symbol -> multiplier (tenths) the round's price moves lead to
    wager,      \* per placeBet call: its inputs [amount, stocks]
    st,         \* plinko:state:{M}: the stored blob (see NoState); phase "NONE" when unset
    writer,     \* the last write of plinko:state:{M}: [inst, held]
    pc,         \* per instance: position in runGameLoop
    timer,      \* per instance: time left on the pending tick timer
    loc,        \* per instance: locals of the running tick
    nextRound,  \* number of the next fresh roundId
    bets,       \* plinko:bets:{M}:{round}: round -> player -> list of wagers
    results,    \* plinko:{M}:{round}:results: symbol -> multiplier, or NoResults
    events,     \* game:error events emitted to the market room
    bpc,        \* per placeBet call: position in placeBet / cancelBet
    bround,     \* per placeBet call: the roundId read by placeBet and by cancelBet
    debit,      \* wallet: outcome of the debit of each call
    refunds,    \* wallet: per wager, refund credits [issued, accepted]
    wins,       \* wallet: per wager, win credits [issued, accepted, amount]
    pay,        \* detached processRoundPayouts tasks, per instance and round
    payEvents,  \* game:payout events emitted to player rooms
    hashBefore, \* per placeBet call: the round's hash as its append script found it
    rtp,        \* plinko:rtp:{M}: [totalBet, totalWon, playCount]; zeros when unset
    rec,        \* recordBet calls: per call [pc, amount, seen], order done, deletions
    engine,     \* decision engine: config multipliers, deltas, metrics read, decisions
    loops,      \* per instance: the market's tick timers [armed, pending, cleared]
    cast        \* the last game:state or market-status broadcast to the market room

callerVars == <<callerId, lockRes, lockLog>>
leaseVars == <<lease, callerId, lockRes, lockLog>>
envVars == <<active, snap, market, wager>>
instVars == <<pc, timer, loc>>
bettorVars == <<bpc, bround, debit>>
payVars == <<pay, payEvents, wins>>
loopVars == <<active, snap, market, wager, st, writer, pc, timer, loc, nextRound,
              bets, results, events, bpc, bround, debit, refunds, wins, pay, payEvents,
              hashBefore, rtp, rec, engine, loops, cast>>
vars == <<lease, callerId, lockRes, lockLog, active, snap, market, wager, st, writer,
          pc, timer, loc, nextRound, bets, results, events, bpc, bround, debit,
          refunds, wins, pay, payEvents, hashBefore, rtp, rec, engine, loops, cast>>

NoLease == [value |-> None, ttl |-> 0]

\* ------------------------------------------------------------ lease script
\* Mutant: the SET without NX, which takes the key from its holder.
ScriptNoNX(l, value, ttl) ==
    [ok |-> TRUE, lease |-> [value |-> value, ttl |-> ttl]]

\* The Lua script of acquireOrExtendLock, run atomically by the store:
\* GET == ARGV[1] -> PEXPIRE (1); else SET NX PX -> 1; else 0.
\* The method returns result === 1 || result === 'OK'.
LockScript(l, value, ttl) ==
    IF l.value = value
    THEN [ok |-> TRUE, lease |-> [value |-> value, ttl |-> ttl]]
    ELSE IF l.value = None
    THEN [ok |-> TRUE, lease |-> [value |-> value, ttl |-> ttl]]
    ELSE [ok |-> FALSE, lease |-> l]

\* The key after one more unit of time: a key whose TTL ran out is gone.
LeaseAfterTick(l) ==
    IF l.ttl <= 1 THEN NoLease ELSE [l EXCEPT !.ttl = l.ttl - 1]

\* ------------------------------------------------------------ state
\* A blob keeps: phase, roundId, the time left to endTime, canUnbet ("true",
\* "false" or "absent"), whether it carries serverTime and endTime (timed),
\* endTime - serverTime (span), and the names of the fields each entry of
\* its stocks array carries (stocks), and the symbols of that array (list).
\* A symbol list is named by the call of selectGameStocks that drew it: the
\* roundId and the phase of the start*Phase that made the call.
NoList == <<0, "NONE">>

NoState == [phase |-> "NONE", round |-> 0, left |-> 0,
            canUnbet |-> "absent", timed |-> FALSE, span |-> 0, stocks |-> {},
            list |-> NoList]
\* The PAUSED blob {phase, message, nextCheck}: no roundId, no serverTime,
\* no endTime, no canUnbet, no stocks.
PausedState == [phase |-> "PAUSED", round |-> 0, left |-> 0,
                canUnbet |-> "absent", timed |-> FALSE, span |-> 0, stocks |-> {},
                list |-> NoList]
\* start: the stored phase and roundId when the tick began.
NoLocals == [trip |-> "NONE", fromHealth |-> FALSE, blob |-> NoState,
             round |-> 0, stocks |-> {}, list |-> NoList, queue |-> <<>>, read |-> {},
             start |-> [phase |-> "NONE", round |-> 0]]
NoBets == [p \in Players |-> <<>>]
\* No timer armed yet (onModuleInit calls runGameLoop itself); nothing broadcast.
\* site: the scheduleNext call that armed the timer ("notLeader", "catch", or
\* "tick" for the calls of a tick that ran through).
NoLoops == [armed |-> FALSE, pending |-> 0, cleared |-> FALSE, site |-> "none"]
NoCast == [type |-> "none", what |-> "NONE", round |-> 0, by |-> 0]
NoWriter == [inst |-> 0, held |-> TRUE]
\* A symbol without a result has multiplier Absent.
Absent == 0 - 1
NoResults == [s \in Symbols |-> Absent]
NoTask == [pc |-> "none", read |-> {}, pending |-> {}]
NoCall == [caller |-> 0, value |-> 0, ok |-> FALSE, before |-> NoLease, after |-> NoLease]
PayIds == Instances \X Rounds

Dec(n) == IF n > 0 THEN n - 1 ELSE 0
Min(a, b) == IF a < b THEN a ELSE b

PhaseTimeMs(phase) ==
    CASE phase = "BETTING" -> BettingTimeMs
      [] phase = "ACCUMULATION" -> AccumulationTimeMs
      [] phase = "DROPPING" -> DroppingTimeMs
      [] phase = "PAYOUT" -> PayoutTimeMs

\* Mutant: the BETTING literal copied into the ACCUMULATION blob.
CanUnbetCopied(phase) ==
    IF phase \in {"BETTING", "ACCUMULATION"} THEN "true" ELSE "false"

\* The canUnbet literal of each start*Phase.
CanUnbetOf(phase) ==
    CASE phase = "BETTING" -> "true"
      [] phase = "ACCUMULATION" -> "false"
      [] phase = "DROPPING" -> "false"
      [] phase = "PAYOUT" -> "false"

\* The fields of each stock of a start*Phase's blob, from those of the
\* previous blob: {symbol, currentPrice} at BETTING; {...s, startPrice,
\* currentPrice, delta} at ACCUMULATION; {...s, currentPrice, delta, path,
\* slot, multiplier} at DROPPING; prevStocks as they are at PAYOUT.
StockFields(phase, prev) ==
    CASE phase = "BETTING" -> {"symbol", "currentPrice"}
      [] phase = "ACCUMULATION" -> prev \cup {"startPrice", "currentPrice", "delta"}
      [] phase = "DROPPING" ->
            prev \cup {"currentPrice", "delta", "path", "slot", "multiplier"}
      [] phase = "PAYOUT" -> prev

\* The stock fields of the blobs of a round that went through its phases.
RECURSIVE RoundStocks(_)
RoundStocks(phase) ==
    CASE phase = "BETTING" -> StockFields(phase, {})
      [] phase = "ACCUMULATION" -> StockFields(phase, RoundStocks("BETTING"))
      [] phase = "DROPPING" -> StockFields(phase, RoundStocks("ACCUMULATION"))
      [] phase = "PAYOUT" -> StockFields(phase, RoundStocks("DROPPING"))

\* Mutant: every start*Phase draws its symbols anew from the snapshot.
SymbolListRedrawn(phase, round, prevList) == <<round, phase>>

\* The symbols of a start*Phase's stocks: selectGameStocks(snapshot) at
\* BETTING, prevStocks.map(...) keeps the symbols in the other phases.
SymbolList(phase, round, prevList) ==
    IF phase = "BETTING" THEN <<round, phase>> ELSE prevList

\* serverTime: Date.now(), endTime: Date.now() + duration; prev, prevList:
\* the fields and the symbols of prevStocks.
Blob(phase, round, prev, prevList) ==
    [phase |-> phase, round |-> round, left |-> Units(PhaseTimeMs(phase)),
     canUnbet |-> CanUnbetOf(phase), timed |-> TRUE, span |-> Units(PhaseTimeMs(phase)),
     stocks |-> StockFields(phase, prev), list |-> SymbolList(phase, round, prevList)]

\* The hash's wagers, and its per-player lists in field order.
ListTxs(l) == {l[k] : k \in 1..Len(l)}
HashTxs(h) == UNION {ListTxs(h[p]) : p \in Players}
AllHashTxs == UNION {HashTxs(bets[r]) : r \in Rounds}
RECURSIVE HashLists(_, _)
HashLists(h, p) ==
    IF p \notin Players THEN <<>>
    ELSE (IF h[p] = <<>> THEN <<>> ELSE <<h[p]>>) \o HashLists(h, p + 1)

\* plinko:rtp:{M} unset: every field reads as '0'.
NoRtp == [totalBet |-> 0, totalWon |-> 0, playCount |-> 0]
\* No recordBet call started; start is the key before the first call, order
\* the calls in the order they returned, deleted the number of DELs.
NoRec == [call |-> [c \in RecCalls |-> [pc |-> "idle", amount |-> 0, seen |-> 0]],
          order |-> <<>>, deleted |-> 0, start |-> NoRtp]
\* multipliers[i] of an index outside the array: undefined.
Undefined == 0 - 2
NoDecision == [index |-> Undefined, multiplier |-> Undefined]
NoEngine == [pc |-> "idle", multipliers |-> <<>>, delta |-> [s \in Symbols |-> 0],
             metrics |-> NoRtp, decision |-> [s \in Symbols |-> NoDecision]]

\* ------------------------------------------------------------ payout arithmetic
\* Money is a fixed-point number with denominator Scale (a multiple of 100 and
\* of every list length), multipliers are tenths: the divisions are exact.
Scale == 100 * 60
Cent == Scale \div 100

RECURSIVE SumSeq(_)
SumSeq(q) == IF q = <<>> THEN 0 ELSE Head(q) + SumSeq(Tail(q))

RECURSIVE SumSet(_, _)
SumSet(S, f) ==
    IF S = {} THEN 0
    ELSE LET x == CHOOSE y \in S : TRUE IN f[x] + SumSet(S \ {x}, f)

\* stockMultipliers.get(stock) || 0
MultOf(res, stock) == IF res[stock] = Absent THEN 0 ELSE res[stock]

\* betWin: betPerStock = amount / stocks.length, summed times the multiplier.
BetWin(w, res) ==
    LET perStock == (w.amount * Scale) \div Len(w.stocks) IN
    SumSeq([k \in 1..Len(w.stocks) |-> (perStock * MultOf(res, w.stocks[k])) \div 10])

\* Number(x.toFixed(2)): x to the nearest cent.
ToFixed2(x) == ((x + (Cent \div 2)) \div Cent) * Cent

\* Mutant: toFixed(2) left out of the payload.
PayloadNoRounding(h, p, res) ==
    [player |-> p,
     totalWager |-> SumSeq([k \in 1..Len(h[p]) |-> wager[h[p][k]].amount * Scale]),
     totalPayout |-> SumSeq([k \in 1..Len(h[p]) |-> BetWin(wager[h[p][k]], res)])]

\* The game:payout payload of one player: totals over the player's list.
Payload(h, p, res) ==
    [player |-> p,
     totalWager |-> ToFixed2(SumSeq([k \in 1..Len(h[p]) |-> wager[h[p][k]].amount * Scale])),
     totalPayout |-> ToFixed2(SumSeq([k \in 1..Len(h[p]) |-> BetWin(wager[h[p][k]], res)]))]

\* ------------------------------------------------------------ initial states
\* Nothing stored, nothing running; rs: the roundIds that uuidv4() may return.
InitOver(rs) ==
    /\ lease = NoLease
    /\ lockRes = [c \in Callers |-> "none"]
    /\ lockLog = NoCall
    /\ st = NoState
    /\ writer = NoWriter
    /\ pc = [i \in Instances |-> "idle"]
    /\ timer = [i \in Instances |-> 0]
    /\ loc = [i \in Instances |-> NoLocals]
    /\ nextRound = 1
    /\ bets = [r \in rs |-> NoBets]
    /\ results = [r \in rs |-> NoResults]
    /\ events = {}
    /\ bpc = [t \in Txs |-> "new"]
    /\ bround = [t \in Txs |-> [place |-> 0, cancel |-> 0]]
    /\ debit = [t \in Txs |-> "none"]
    /\ refunds = [t \in Txs |-> [issued |-> 0, accepted |-> 0]]
    /\ wins = [t \in Txs |-> [issued |-> 0, accepted |-> 0, amount |-> 0]]
    /\ pay = [k \in Instances \X rs |-> NoTask]
    /\ payEvents = {}
    /\ hashBefore = [t \in Txs |-> NoBets]
    /\ loops = [i \in Instances |-> NoLoops]
    /\ cast = NoCast

InitCore == InitOver(Rounds)

\* No counters recorded, no recordBet call and no decision under way.
InitBase ==
    /\ InitCore
    /\ rtp = NoRtp
    /\ rec = NoRec
    /\ engine = NoEngine

\* Each call bets its number on one symbol; symbol 1 ends on 1.5x, symbol 2
\* on 0.5x, the others are not among the round's results.
FixedWagers == [t \in Txs |-> [amount |-> t, stocks |-> <<((t - 1) % NumSymbols) + 1>>]]
FixedMarket == [s \in Symbols |-> IF s = 1 THEN 15 ELSE IF s = 2 THEN 5 ELSE Absent]

\* One running instance, players and the market feed.
Init ==
    /\ InitBase
    /\ callerId = [c \in Callers |-> 1]
    /\ active = [i \in Instances |-> i = 1]
    /\ snap \in {"fresh", "stale", "absent"}
    /\ market = FixedMarket
    /\ wager = FixedWagers

\* Every instance running, no players.
InitHA ==
    /\ InitBase
    /\ callerId = [c \in Callers |-> 1]
    /\ active = [i \in Instances |-> TRUE]
    /\ snap \in {"fresh", "stale", "absent"}
    /\ market = FixedMarket
    /\ wager = FixedWagers

\* Callers of the lease script with holder values that may coincide.
InitLease ==
    /\ InitBase
    /\ callerId \in [Callers -> IdValues]
    /\ active = [i \in Instances |-> FALSE]
    /\ snap = "fresh"
    /\ market = FixedMarket
    /\ wager = FixedWagers

\* ------------------------------------------------------------ lease spec
\* acquireOrExtendLock(key, value, 10000) by caller c; eval succeeded.
LockCall(c) ==
    LET r == LockScript(lease, callerId[c], Units(LeaseTtlMs)) IN
    /\ lease' = r.lease
    /\ lockRes' = [lockRes EXCEPT ![c] = IF r.ok THEN "true" ELSE "false"]
    /\ lockLog' = [caller |-> c, value |-> callerId[c], ok |-> r.ok,
                   before |-> lease, after |-> r.lease]
    /\ UNCHANGED callerId
    /\ UNCHANGED loopVars

\* acquireOrExtendLock when client.eval throws: caught, returns false.
LockCallError(c) ==
    /\ lockRes' = [lockRes EXCEPT ![c] = "threw"]
    /\ lockLog' = [caller |-> c, value |-> callerId[c], ok |-> FALSE,
                   before |-> lease, after |-> lease]
    /\ UNCHANGED <<lease, callerId>>
    /\ UNCHANGED loopVars

\* One unit of time passes; when the key expires the TTL window ends.
LeaseClock ==
    /\ lease.value # None
    /\ lease' = LeaseAfterTick(lease)
    /\ lockRes' = IF lease'.value = None
                  THEN [c \in Callers |-> "none"] ELSE lockRes
    /\ UNCHANGED <<callerId, lockLog>>
    /\ UNCHANGED loopVars

NextLease ==
    \/ \E c \in Callers : LockCall(c)
    \/ \E c \in Callers : LockCallError(c)
    \/ LeaseClock

SpecLease == InitLease /\ [][NextLease]_vars

\* ------------------------------------------------------------ lease claims
\* The last call was a real run of the script (eval did not throw).
ScriptRan == lockLog.caller # 0 /\ lockRes[lockLog.caller] \in {"true", "false"}

\* C1: among callers with distinct holder values at most one is granted the
\* lease in a TTL window; a call returns true only if the key was unset or
\* held by the caller, and a non-holder's call on a set key returns false
\* and leaves holder and TTL as they were.
C1_LeaseExclusive ==
    /\ \A c, d \in Callers :
          callerId[c] # callerId[d] => ~(lockRes[c] = "true" /\ lockRes[d] = "true")
    /\ \A c \in Callers : lockRes[c] = "true" => lease.value = callerId[c]
    /\ ScriptRan =>
          /\ lockLog.ok => lockLog.before.value \in {None, lockLog.value}
          /\ lockLog.before.value \notin {None, lockLog.value} =>
                ~lockLog.ok /\ lockLog.after = lockLog.before

\* C1 witness: a non-holder called while another value held the key.
C1_Witness ==
    /\ ScriptRan
    /\ lockRes[lockLog.caller] = "false"
    /\ lockLog.before.value \notin {None, lockLog.value}
    /\ lockLog.after = lockLog.before
    /\ \E c \in Callers : lockRes[c] = "true"

LoopFrame == UNCHANGED <<callerId, lockRes, lockLog, active, snap, market, wager,
                         bpc, bround, debit, wins, payEvents, hashBefore, rtp, rec, engine>>

\* Mutant: the new timer armed without clearTimeout of the one in the map.
RearmNoClear(l, site) ==
    [armed |-> TRUE, pending |-> l.pending + 1, cleared |-> FALSE, site |-> site]

\* scheduleNext on the map entry: clearTimeout of the timer in the map (one
\* pending timer fewer if it had not fired yet), then set of a new setTimeout.
Rearm(l, site) ==
    [armed |-> TRUE,
     pending |-> (IF l.armed THEN l.pending - 1 ELSE l.pending) + 1,
     cleared |-> l.armed, site |-> site]

\* The timer in the map fires and calls runGameLoop.
Fired(l) ==
    IF l.armed
    THEN [armed |-> FALSE, pending |-> l.pending - 1, cleared |-> FALSE, site |-> "none"]
    ELSE l

\* scheduleNext with the map entry l in place: the tick ends.
Arm(i, ms, l, site) ==
    /\ pc' = [pc EXCEPT ![i] = "idle"]
    /\ timer' = [timer EXCEPT ![i] = Units(ms)]
    /\ loops' = [loops EXCEPT ![i] = Rearm(l, site)]

\* scheduleNext(market, delay, cb): clears the pending timer, arms a new one.
ScheduleNext(i, ms) == Arm(i, ms, loops[i], "tick")

\* runGameLoop's catch: scheduleNext(market, 5000, ...).
ScheduleAfterError(i) == Arm(i, ErrorDelayMs, loops[i], "catch")

Goto(i, label) ==
    /\ pc' = [pc EXCEPT ![i] = label]
    /\ UNCHANGED <<timer, loops>>

\* The payloads of game:state and of market-status.
StateCast(i, blob) == [type |-> "state", what |-> blob.phase, round |-> blob.round, by |-> i]
StatusCast(i, status) == [type |-> "status", what |-> status, round |-> 0, by |-> i]

\* redisService.set(stateKey, blob); writer records whether i holds the lease.
WriteState(i, blob) ==
    /\ st' = blob
    /\ writer' = [inst |-> i, held |-> lease.value = InstanceId(i)]

\* Mutant: saveAndBroadcast emitting before the awaited set.
BroadcastAndSave(i, blob, ok) ==
    /\ cast' = StateCast(i, blob)
    /\ IF ok THEN WriteState(i, blob) ELSE UNCHANGED <<st, writer>>

\* saveAndBroadcast: await redisService.set(stateKey, blob), then the emit of
\* game:state to the market room; a set that throws leaves both undone.
SaveAndBroadcast(i, blob, ok) ==
    IF ok
    THEN WriteState(i, blob) /\ cast' = StateCast(i, blob)
    ELSE UNCHANGED <<st, writer, cast>>

\* Mutant: the result of acquireOrExtendLock is not looked at.
RunGameLoopNoReturn(i) ==
    /\ active[i]
    /\ pc[i] = "idle"
    /\ timer[i] = 0
    /\ LET r == LockScript(lease, InstanceId(i), Units(LeaseTtlMs)) IN
       /\ lease' = r.lease
       /\ pc' = [pc EXCEPT ![i] = "health"]
       /\ loc' = [loc EXCEPT ![i].start = [phase |-> st.phase, round |-> st.round]]
       /\ loops' = [loops EXCEPT ![i] = Fired(@)]
       /\ UNCHANGED timer
    /\ LoopFrame
    /\ UNCHANGED <<st, writer, nextRound, bets, results, events, cast, refunds, pay>>

\* runGameLoop: the timer fires, the lease script runs; not leader -> 5 s.
RunGameLoop(i) ==
    /\ active[i]
    /\ pc[i] = "idle"
    /\ timer[i] = 0
    /\ LET r == LockScript(lease, InstanceId(i), Units(LeaseTtlMs)) IN
       /\ lease' = r.lease
       /\ IF r.ok
          THEN /\ pc' = [pc EXCEPT ![i] = "health"]
               /\ loc' = [loc EXCEPT ![i].start = [phase |-> st.phase, round |-> st.round]]
               /\ loops' = [loops EXCEPT ![i] = Fired(@)]
               /\ UNCHANGED timer
          ELSE /\ Arm(i, NotLeaderDelayMs, Fired(loops[i]), "notLeader")
               /\ UNCHANGED loc
    /\ LoopFrame
    /\ UNCHANGED <<st, writer, nextRound, bets, results, events, cast, refunds, pay>>

\* runGameLoop when the lease eval throws: acquireOrExtendLock returns false.
RunGameLoopLockError(i) ==
    /\ active[i]
    /\ pc[i] = "idle"
    /\ timer[i] = 0
    /\ Arm(i, NotLeaderDelayMs, Fired(loops[i]), "notLeader")
    /\ LoopFrame
    /\ UNCHANGED <<lease, st, writer, loc, nextRound, bets, results, events, cast, refunds, pay>>

\* checkMarketHealth: reads the snapshot and the stored state.
CheckMarketHealth(i) ==
    /\ pc[i] = "health"
    /\ IF snap # "fresh"
       THEN IF st.phase # "PAUSED"
            THEN /\ Goto(i, "ec_get")
                 /\ loc' = [loc EXCEPT ![i].trip = st.phase, ![i].round = st.round]
                 /\ UNCHANGED cast
            ELSE /\ ScheduleNext(i, UnhealthyDelayMs)
                 /\ loc' = [loc EXCEPT ![i] = NoLocals]
                 /\ UNCHANGED cast
       ELSE IF st.phase = "PAUSED"
            THEN /\ Goto(i, "sb_snap")
                 /\ loc' = [loc EXCEPT ![i].fromHealth = TRUE]
                 /\ cast' = StatusCast(i, "OPEN")
            ELSE /\ Goto(i, "tick_get")
                 /\ UNCHANGED <<loc, cast>>
    /\ LoopFrame
    /\ UNCHANGED <<lease, st, writer, nextRound, bets, results, events, refunds, pay>>

\* Mutant: the breaker refunds whatever the phase of the round.
RefundablePhasesAll == {"BETTING", "ACCUMULATION", "DROPPING", "PAYOUT"}

\* handleEmergencyClose: the phases in which a round is cancelled and refunded.
RefundablePhases == {"BETTING", "ACCUMULATION"}

\* handleEmergencyClose: reads the state again; BETTING or ACCUMULATION ->
\* emits ROUND_CANCELLED and goes on to triggerRefunds.
HandleEmergencyClose(i) ==
    /\ pc[i] = "ec_get"
    /\ IF st.phase \in RefundablePhases
       THEN /\ events' = events \cup {[type |-> "ROUND_CANCELLED", round |-> st.round]}
            /\ loc' = [loc EXCEPT ![i].round = st.round]
            /\ Goto(i, "rf_hgetall")
       ELSE /\ Goto(i, "set_paused")
            /\ UNCHANGED <<events, loc>>
    /\ LoopFrame
    /\ UNCHANGED <<lease, st, writer, nextRound, bets, results, cast, refunds, pay>>

\* triggerRefunds: hGetAll of the round's hash; empty -> return.
TriggerRefundsRead(i) ==
    /\ pc[i] = "rf_hgetall"
    /\ LET h == bets[loc[i].round] IN
       IF HashTxs(h) = {}
       THEN /\ Goto(i, "set_paused")
            /\ UNCHANGED loc
       ELSE /\ Goto(i, "rf_credit")
            /\ loc' = [loc EXCEPT ![i].queue = HashLists(h, 1), ![i].read = HashTxs(h)]
    /\ LoopFrame
    /\ UNCHANGED <<lease, st, writer, nextRound, bets, results, events, cast, refunds, pay>>

\* The rest of the refund queue after the credit of its first wager: a credit
\* that raises is caught per player, which skips that player's other wagers.
QueueAfter(q, outcome) ==
    IF outcome = "raise" \/ Len(Head(q)) = 1
    THEN Tail(q)
    ELSE <<Tail(Head(q))>> \o Tail(q)

\* triggerRefunds: one awaited creditWin(type refund, reason market_outage).
RefundCredit(i, outcome) ==
    /\ pc[i] = "rf_credit"
    /\ LET q == loc[i].queue
           t == Head(Head(q))
           q2 == QueueAfter(q, outcome) IN
       /\ refunds' = [refunds EXCEPT ![t].issued = @ + 1,
                                     ![t].accepted = IF outcome = "ok" THEN @ + 1 ELSE @]
       /\ loc' = [loc EXCEPT ![i].queue = q2]
       /\ Goto(i, IF q2 = <<>> THEN "rf_del" ELSE "rf_credit")
    /\ LoopFrame
    /\ UNCHANGED <<lease, st, writer, nextRound, bets, results, events, cast, pay>>

\* triggerRefunds: del(betsKey).
RefundDelete(i) ==
    /\ pc[i] = "rf_del"
    /\ bets' = [bets EXCEPT ![loc[i].round] = NoBets]
    /\ Goto(i, "set_paused")
    /\ LoopFrame
    /\ UNCHANGED <<lease, st, writer, loc, nextRound, results, events, cast, refunds, pay>>

\* checkMarketHealth: writes the PAUSED blob, broadcasts CLOSED, returns
\* false; runGameLoop arms the next tick in 2 s.
SetPaused(i) ==
    /\ pc[i] = "set_paused"
    /\ WriteState(i, PausedState)
    /\ cast' = StatusCast(i, "CLOSED")
    /\ loc' = [loc EXCEPT ![i] = NoLocals]
    /\ ScheduleNext(i, UnhealthyDelayMs)
    /\ LoopFrame
    /\ UNCHANGED <<lease, nextRound, bets, results, events, refunds, pay>>

\* processGameTick: Math.min(timeLeft, 1000).
NextTick(left) == Min(left * UnitMs, WaitTickMs)

\* processGameTick: reads the state and picks the transition.
ProcessGameTick(i) ==
    /\ pc[i] = "tick_get"
    /\ IF st.phase = "NONE"
       THEN Goto(i, "sb_snap") /\ UNCHANGED loc
       ELSE IF st.phase = "PAUSED"
       THEN \* endTime is undefined: timeLeft is NaN, setTimeout(NaN) fires at once
            ScheduleNext(i, 0) /\ loc' = [loc EXCEPT ![i] = NoLocals]
       ELSE IF st.left > 0
       THEN ScheduleNext(i, NextTick(st.left)) /\
            loc' = [loc EXCEPT ![i] = NoLocals]
       ELSE CASE st.phase = "BETTING" ->
                    Goto(i, "sa_snap") /\
                    loc' = [loc EXCEPT ![i].round = st.round, ![i].stocks = st.stocks,
                                      ![i].list = st.list]
              [] st.phase = "ACCUMULATION" ->
                    Goto(i, "sd_snap") /\
                    loc' = [loc EXCEPT ![i].round = st.round, ![i].stocks = st.stocks,
                                      ![i].list = st.list]
              [] st.phase = "DROPPING" ->
                    Goto(i, "sp_save") /\
                    loc' = [loc EXCEPT ![i].blob = Blob("PAYOUT", st.round, st.stocks, st.list)]
              [] st.phase = "PAYOUT" ->
                    Goto(i, "sb_snap") /\ UNCHANGED loc
    /\ LoopFrame
    /\ UNCHANGED <<lease, st, writer, nextRound, bets, results, events, cast, refunds, pay>>

\* The delay armed when a start*Phase returns: when startBettingPhase was
\* called by checkMarketHealth, runGameLoop re-arms the tick in 2 s.
ArmAfter(i, ms) ==
    IF loc[i].fromHealth
    THEN Arm(i, UnhealthyDelayMs, Rearm(loops[i], "tick"), "tick")
    ELSE ScheduleNext(i, ms)

\* startBettingPhase: fresh roundId, snapshot; none -> retry in 1 s.
StartBettingPhase(i) ==
    /\ pc[i] = "sb_snap"
    /\ IF snap = "absent"
       THEN /\ ArmAfter(i, RetryDelayMs)
            /\ loc' = [loc EXCEPT ![i] = NoLocals]
            /\ UNCHANGED nextRound
       ELSE /\ nextRound \in DOMAIN bets
            /\ nextRound' = nextRound + 1
            /\ loc' = [loc EXCEPT ![i].blob = Blob("BETTING", nextRound, {}, NoList)]
            /\ Goto(i, "sb_save")
    /\ LoopFrame
    /\ UNCHANGED <<lease, st, writer, bets, results, events, cast, refunds, pay>>

\* startBettingPhase: saveAndBroadcast, then the tick is armed.
SaveBetting(i) ==
    /\ pc[i] = "sb_save"
    /\ SaveAndBroadcast(i, loc[i].blob, TRUE)
    /\ ArmAfter(i, BettingTimeMs)
    /\ loc' = [loc EXCEPT ![i] = NoLocals]
    /\ LoopFrame
    /\ UNCHANGED <<lease, nextRound, bets, results, events, refunds, pay>>

\* startAccumulationPhase: snapshot; none -> retry in 1 s.
StartAccumulationPhase(i) ==
    /\ pc[i] = "sa_snap"
    /\ IF snap = "absent"
       THEN /\ ScheduleNext(i, RetryDelayMs)
            /\ loc' = [loc EXCEPT ![i] = NoLocals]
       ELSE /\ loc' = [loc EXCEPT ![i].blob = Blob("ACCUMULATION", loc[i].round, loc[i].stocks, loc[i].list)]
            /\ Goto(i, "sa_save")
    /\ LoopFrame
    /\ UNCHANGED <<lease, st, writer, nextRound, bets, results, events, cast, refunds, pay>>

\* startAccumulationPhase: saveAndBroadcast, then the tick is armed.
SaveAccumulation(i) ==
    /\ pc[i] = "sa_save"
    /\ SaveAndBroadcast(i, loc[i].blob, TRUE)
    /\ ScheduleNext(i, AccumulationTimeMs)
    /\ loc' = [loc EXCEPT ![i] = NoLocals]
    /\ LoopFrame
    /\ UNCHANGED <<lease, nextRound, bets, results, events, refunds, pay>>

\* startDroppingPhase: end snapshot (none -> retry in 1 s), results computed
\* and stored under the round's results key.
StartDroppingPhase(i) ==
    /\ pc[i] = "sd_snap"
    /\ IF snap = "absent"
       THEN /\ ScheduleNext(i, RetryDelayMs)
            /\ loc' = [loc EXCEPT ![i] = NoLocals]
            /\ UNCHANGED results
       ELSE /\ results' = [results EXCEPT ![loc[i].round] = market]
            /\ loc' = [loc EXCEPT ![i].blob = Blob("DROPPING", loc[i].round, loc[i].stocks, loc[i].list)]
            /\ Goto(i, "sd_save")
    /\ LoopFrame
    /\ UNCHANGED <<lease, st, writer, nextRound, bets, events, cast, refunds, pay>>

\* startDroppingPhase: saveAndBroadcast, then the tick is armed.
SaveDropping(i) ==
    /\ pc[i] = "sd_save"
    /\ SaveAndBroadcast(i, loc[i].blob, TRUE)
    /\ ScheduleNext(i, DroppingTimeMs)
    /\ loc' = [loc EXCEPT ![i] = NoLocals]
    /\ LoopFrame
    /\ UNCHANGED <<lease, nextRound, bets, results, events, refunds, pay>>

\* startPayoutPhase: saveAndBroadcast, processRoundPayouts started without
\* being awaited, then the tick is armed.
SavePayout(i) ==
    /\ pc[i] = "sp_save"
    /\ pay[<<i, loc[i].blob.round>>].pc = "none"
    /\ SaveAndBroadcast(i, loc[i].blob, TRUE)
    /\ pay' = [pay EXCEPT ![<<i, loc[i].blob.round>>].pc = "read"]
    /\ ScheduleNext(i, PayoutTimeMs)
    /\ loc' = [loc EXCEPT ![i] = NoLocals]
    /\ LoopFrame
    /\ UNCHANGED <<lease, nextRound, bets, results, events, refunds>>

\* The steps of a tick that await the store or the market feed.
ThrowingSteps == {"health", "ec_get", "rf_hgetall", "rf_del", "set_paused", "tick_get",
                  "sb_snap", "sa_snap", "sd_snap"}
SaveSteps == {"sb_save", "sa_save", "sd_save", "sp_save"}

\* runGameLoop's catch: an awaited call of the tick throws; the error is
\* logged and the next tick armed in 5 s.
TickThrows(i) ==
    /\ pc[i] \in ThrowingSteps
    /\ ScheduleAfterError(i)
    /\ loc' = [loc EXCEPT ![i] = NoLocals]
    /\ LoopFrame
    /\ UNCHANGED <<lease, st, writer, nextRound, bets, results, events, cast, refunds, pay>>

\* saveAndBroadcast when the set of the state key throws: same catch.
SaveThrows(i) ==
    /\ pc[i] \in SaveSteps
    /\ SaveAndBroadcast(i, loc[i].blob, FALSE)
    /\ ScheduleAfterError(i)
    /\ loc' = [loc EXCEPT ![i] = NoLocals]
    /\ LoopFrame
    /\ UNCHANGED <<lease, nextRound, bets, results, events, refunds, pay>>

\* startBettingPhase: saveAndBroadcast went through, then the set of the
\* round's stocks key throws: same catch, scheduleNext(duration) not reached.
SaveBettingStocksError(i) ==
    /\ pc[i] = "sb_save"
    /\ SaveAndBroadcast(i, loc[i].blob, TRUE)
    /\ ScheduleAfterError(i)
    /\ loc' = [loc EXCEPT ![i] = NoLocals]
    /\ LoopFrame
    /\ UNCHANGED <<lease, nextRound, bets, results, events, refunds, pay>>

\* The market feed delivers, ages or loses its snapshot.
SnapshotChange ==
    /\ snap' \in {"fresh", "stale", "absent"} \ {snap}
    /\ UNCHANGED <<lease, callerId, lockRes, lockLog, active, market, wager, st, writer,
                   pc, timer, loc, nextRound, bets, results, events, cast, bpc, bround, debit,
                   refunds, wins, pay, payEvents, hashBefore, rtp, rec, engine, loops, cast>>

\* One unit of time passes: every countdown runs.
Clock ==
    /\ lease' = LeaseAfterTick(lease)
    /\ st' = [st EXCEPT !.left = Dec(@)]
    /\ timer' = [i \in Instances |-> Dec(timer[i])]
    /\ loc' = [i \in Instances |-> [loc[i] EXCEPT !.blob.left = Dec(@)]]
    /\ UNCHANGED <<callerId, lockRes, lockLog, active, snap, market, wager, writer,
                   pc, nextRound, bets, results, events, bpc, bround, debit,
                   refunds, wins, pay, payEvents, hashBefore, rtp, rec, engine, loops, cast>>

\* ------------------------------------------------------------ wager ledger
\* What no step of placeBet or cancelBet touches.
BetFrame == UNCHANGED <<lease, callerId, lockRes, lockLog, active, snap, market, wager,
                        st, writer, pc, timer, loc, nextRound, results, events,
                        wins, pay, payEvents, rtp, rec, engine, loops, cast>>

\* Mutant: the upper limit of the selection left out.
ValidateNoLimit(w) ==
    IF w.amount <= 0 THEN "InvalidAmount"
    ELSE IF Len(w.stocks) = 0 THEN "InvalidSelection"
    ELSE "debit"

\* Mutant: the check of the selection left out.
ValidateAmountOnly(w) == IF w.amount <= 0 THEN "InvalidAmount" ELSE "debit"

\* placeBet: 'Invalid amount', then 'Invalid stock selection', else on to
\* the wallet deduction.
Validate(w) ==
    IF w.amount <= 0 THEN "InvalidAmount"
    ELSE IF Len(w.stocks) = 0 \/ Len(w.stocks) > MaxStocksPerBet THEN "InvalidSelection"
    ELSE "debit"

\* placeBet: reads the state, validates the inputs.
PlaceBetRead(t) ==
    /\ bpc[t] = "new"
    /\ IF st.phase # "BETTING"
       THEN bpc' = [bpc EXCEPT ![t] = "BettingClosed"] /\ UNCHANGED bround
       ELSE IF Validate(wager[t]) # "debit"
       THEN bpc' = [bpc EXCEPT ![t] = Validate(wager[t])] /\ UNCHANGED bround
       ELSE /\ bpc' = [bpc EXCEPT ![t] = "debit"]
            /\ bround' = [bround EXCEPT ![t].place = st.round]
    /\ BetFrame
    /\ UNCHANGED <<bets, debit, refunds, hashBefore>>

\* Mutant: the status of the debit's reply is not looked at.
AfterDebitNoStatus(outcome) ==
    IF outcome = "raise" THEN "WalletUnavailable" ELSE "append"

\* placeBet after http.placeBet: a raise -> 'Wallet deduction failed', a
\* status other than SUCCESS -> 'Insufficient balance', else the append.
AfterDebit(outcome) ==
    IF outcome = "raise" THEN "WalletUnavailable"
    ELSE IF outcome # "SUCCESS" THEN "InsufficientBalance"
    ELSE "append"

\* placeBet: the wallet debit.
PlaceBetDebit(t, outcome) ==
    /\ bpc[t] = "debit"
    /\ debit' = [debit EXCEPT ![t] = outcome]
    /\ bpc' = [bpc EXCEPT ![t] = AfterDebit(outcome)]
    /\ BetFrame
    /\ UNCHANGED <<bets, bround, refunds, hashBefore>>

\* Mutant: the HSET of a list holding the new wager only.
AppendOverwrite(list, t) == <<t>>

\* The append script: HGET, decode, table.insert, HSET.
AppendScript(list, t) == Append(list, t)

\* placeBet: the append script on the hash of the round read at the start.
PlaceBetAppend(t) ==
    /\ bpc[t] = "append"
    /\ bets' = [bets EXCEPT ![bround[t].place][PlayerOf(t)] = AppendScript(@, t)]
    /\ hashBefore' = [hashBefore EXCEPT ![t] = bets[bround[t].place]]
    /\ bpc' = [bpc EXCEPT ![t] = "accepted"]
    /\ BetFrame
    /\ UNCHANGED <<bround, debit, refunds>>

\* cancelBet of an accepted wager: reads the state.
CancelBetRead(t) ==
    /\ bpc[t] = "accepted"
    /\ IF st.phase # "BETTING"
       THEN bpc' = [bpc EXCEPT ![t] = "CancelClosed"] /\ UNCHANGED bround
       ELSE /\ bpc' = [bpc EXCEPT ![t] = "c_script"]
            /\ bround' = [bround EXCEPT ![t].cancel = st.round]
    /\ BetFrame
    /\ UNCHANGED <<bets, debit, refunds, hashBefore>>

\* Mutant: the HDEL of the player's field whenever the wager was found.
RemoveField(list, t) == <<>>

\* The remove script: the list without the wager of the given transactionId
\* (HSET of the rest, HDEL of the field when nothing is left: an unset field
\* is the empty list here, and an empty list is never stored).
RemoveScript(list, t) == SelectSeq(list, LAMBDA x : x # t)

\* cancelBet: the remove script on the hash of the current round.
CancelBetScript(t) ==
    /\ bpc[t] = "c_script"
    /\ LET r == bround[t].cancel
           list == bets[r][PlayerOf(t)] IN
       IF t \in ListTxs(list)
       THEN /\ bets' = [bets EXCEPT ![r][PlayerOf(t)] = RemoveScript(list, t)]
            /\ bpc' = [bpc EXCEPT ![t] = "c_credit"]
       ELSE /\ bpc' = [bpc EXCEPT ![t] = "NotFound"]
            /\ UNCHANGED bets
    /\ BetFrame
    /\ UNCHANGED <<bround, debit, refunds, hashBefore>>

\* cancelBet after http.creditWin: only a raise fails the cancellation.
AfterRefund(outcome) ==
    IF outcome = "raise" THEN "CancellationFailed" ELSE "CANCELLED"

\* cancelBet: the refund credit (type refund, reason user_cancel).
CancelBetCredit(t, outcome) ==
    /\ bpc[t] = "c_credit"
    /\ refunds' = [refunds EXCEPT ![t].issued = @ + 1,
                                  ![t].accepted = IF outcome = "ok" THEN @ + 1 ELSE @]
    /\ bpc' = [bpc EXCEPT ![t] = AfterRefund(outcome)]
    /\ BetFrame
    /\ UNCHANGED <<bets, bround, debit, hashBefore>>

\* ------------------------------------------------------------ payout pipeline
\* What no step of processRoundPayouts touches.
PayFrame == UNCHANGED <<lease, callerId, lockRes, lockLog, active, snap, market, wager,
                        st, writer, pc, timer, loc, nextRound, events,
                        bpc, bround, debit, refunds, hashBefore, rtp, rec, engine, loops, cast>>

PayGoto(k, label) == pay' = [pay EXCEPT ![k].pc = label]

MinOf(S) == CHOOSE x \in S : \A y \in S : x <= y

\* Mutant: the check of the results key left out.
NothingToPayHashOnly(res, h) == HashTxs(h) = {}

\* !resultsRaw || !allBetsMap || Object.keys(allBetsMap).length === 0
NothingToPay(res, h) == res = NoResults \/ HashTxs(h) = {}

\* Mutant: a win credit that raises ends processRoundPayouts (Promise.all
\* on credits that rethrow).
AfterCreditAbort(left, outcome) ==
    IF outcome = "raise" THEN "returned"
    ELSE IF left = {} THEN "del_bets" ELSE "credits"

\* creditPlayer catches and logs a raise, and Promise.allSettled waits for
\* every credit: whatever the reply, the next one is awaited.
AfterCredit(left, outcome) == IF left = {} THEN "del_bets" ELSE "credits"

\* processRoundPayouts: reads results and hash; nothing to pay -> cleanup.
\* Else the loop over the players, which does not yield: every game:payout
\* is emitted and every win credit is sent before the first reply.
PayoutRead(k) ==
    /\ pay[k].pc = "read"
    /\ LET r == k[2]
           h == bets[r]
           res == results[r]
           winners == {t \in HashTxs(h) : BetWin(wager[t], res) > 0} IN
       IF NothingToPay(res, h)
       THEN /\ pay' = [pay EXCEPT ![k] = [pc |-> "del_only", read |-> HashTxs(h), pending |-> {}]]
            /\ UNCHANGED <<wins, payEvents>>
       ELSE /\ wins' = [t \in Txs |->
                          IF t \in winners
                          THEN [issued |-> wins[t].issued + 1, accepted |-> wins[t].accepted,
                                amount |-> BetWin(wager[t], res)]
                          ELSE wins[t]]
            /\ payEvents' = payEvents \cup
                   {[round |-> r, inst |-> k[1], body |-> Payload(h, p, res)] :
                        p \in {q \in Players : h[q] # <<>>}}
            /\ pay' = [pay EXCEPT ![k] =
                   [pc |-> IF winners = {} THEN "del_bets" ELSE "credits",
                    read |-> HashTxs(h), pending |-> winners]]
    /\ PayFrame
    /\ UNCHANGED <<bets, results>>

\* creditPlayer: the reply to one win credit; a raise is caught and logged.
PayoutCreditReply(k, outcome) ==
    /\ pay[k].pc = "credits"
    /\ LET t == MinOf(pay[k].pending)
           left == pay[k].pending \ {t} IN
       /\ wins' = [wins EXCEPT ![t].accepted = IF outcome = "ok" THEN @ + 1 ELSE @]
       /\ pay' = [pay EXCEPT ![k].pending = left,
                             ![k].pc = AfterCredit(left, outcome)]
    /\ PayFrame
    /\ UNCHANGED <<bets, results, payEvents>>

\* processRoundPayouts after allSettled: del(betsKey).
PayoutDeleteBets(k) ==
    /\ pay[k].pc = "del_bets"
    /\ bets' = [bets EXCEPT ![k[2]] = NoBets]
    /\ PayGoto(k, "del_results")
    /\ PayFrame
    /\ UNCHANGED <<results, wins, payEvents>>

\* processRoundPayouts: del of the results key.
PayoutDeleteResults(k) ==
    /\ pay[k].pc = "del_results"
    /\ results' = [results EXCEPT ![k[2]] = NoResults]
    /\ PayGoto(k, "done")
    /\ PayFrame
    /\ UNCHANGED <<bets, wins, payEvents>>

\* processRoundPayouts with nothing to pay: del(betsKey), return.
PayoutDeleteOnly(k) ==
    /\ pay[k].pc = "del_only"
    /\ bets' = [bets EXCEPT ![k[2]] = NoBets]
    /\ PayGoto(k, "returned")
    /\ PayFrame
    /\ UNCHANGED <<results, wins, payEvents>>

\* ------------------------------------------------------------ RTP tracker
\* Each store command of recordBet is one step. The commands succeed: a
\* failing one is logged and swallowed by the try/catch of the method.
\* What no step of recordBet touches.
RtpFrame == UNCHANGED <<lease, callerId, lockRes, lockLog, active, snap, market, wager,
                        st, writer, pc, timer, loc, nextRound, bets, results, events,
                        bpc, bround, debit, refunds, wins, pay, payEvents, hashBefore,
                        engine, loops, cast>>

\* Mutant: the reset only once the count is above the limit.
NeedsResetAbove(playCount) == playCount > RtpLimitPlayCount

\* recordBet: if (playCount >= limit).
NeedsReset(playCount) == playCount >= RtpLimitPlayCount

\* Mutant: a reset of the two bet counters that leaves totalWon.
DelBetFields(r) == [r EXCEPT !.totalBet = 0, !.playCount = 0]

\* resetRTPMetrics: DEL of the whole key.
DelKey(r) == NoRtp

\* recordBet(market, betAmount): HGET playCount, parseInt, the limit check.
RecordBetRead(c, amount) ==
    /\ rec.call[c].pc = "idle"
    /\ rec' = [rec EXCEPT !["call"][c] =
                 [pc |-> IF NeedsReset(rtp.playCount) THEN "reset" ELSE "incrBet",
                  amount |-> amount, seen |-> rtp.playCount]]
    /\ UNCHANGED rtp
    /\ RtpFrame

\* recordBet at the limit: resetRTPMetrics.
ResetRTPMetrics(c) ==
    /\ rec.call[c].pc = "reset"
    /\ rtp' = DelKey(rtp)
    /\ rec' = [rec EXCEPT !["call"][c].pc = "incrBet", !.deleted = @ + 1]
    /\ RtpFrame

\* recordBet: HINCRBYFLOAT totalBet betAmount.
RecordBetIncrBet(c) ==
    /\ rec.call[c].pc = "incrBet"
    /\ rtp' = [rtp EXCEPT !.totalBet = @ + rec.call[c].amount]
    /\ rec' = [rec EXCEPT !["call"][c].pc = "incrCount"]
    /\ RtpFrame

\* recordBet: HINCRBY playCount 1, and the call returns.
RecordBetIncrCount(c) ==
    /\ rec.call[c].pc = "incrCount"
    /\ rtp' = [rtp EXCEPT !.playCount = @ + 1]
    /\ rec' = [rec EXCEPT !["call"][c].pc = "done", !.order = Append(@, c)]
    /\ RtpFrame

\* No recordBet call is between its first and its last store command.
NoCallRunning == \A c \in RecCalls : rec.call[c].pc \in {"idle", "done"}

\* ------------------------------------------------------------ decision engine
\* Multipliers are in tenths. The array the decision service was written for
\* ([4, 2, 1.4, 0, 0.5, 0, 1.2, 1.5, 5]), the default of app.config
\* ([10, 5, 3, 1.5, 0.5, 1.5, 3, 5, 10]), and a two-slot PLINKO_MULTIPLIERS.
DefaultMultipliers == <<40, 20, 14, 0, 5, 0, 12, 15, 50>>
ConfigMultipliers == <<100, 50, 30, 15, 5, 15, 30, 50, 100>>
TwoMultipliers == <<20, 5>>
MultiplierArrays == {DefaultMultipliers, ConfigMultipliers, TwoMultipliers}

\* The sign of a symbol's delta (percent, rounded to 3 decimals).
Deltas == {0 - 1, 0, 1}

\* What no step of the decision engine touches.
EngineFrame == UNCHANGED <<lease, callerId, lockRes, lockLog, active, snap, market, wager,
                           st, writer, pc, timer, loc, nextRound, bets, results, events,
                           bpc, bround, debit, refunds, wins, pay, payEvents, hashBefore,
                           rtp, rec, loops, cast>>

\* hasEnoughData: metrics.playCount >= threshold.
HasEnoughData(m) == m.playCount >= RtpThresholdPlayCount

\* currentRTP < desiredRTP, with currentRTP = totalBet > 0 ?
\* (totalWon / totalBet) * 100 : 0.
RtpBelowDesired(m) ==
    IF m.totalBet > 0 THEN m.totalWon * 1000 < DesiredRTPTenths * m.totalBet
    ELSE 0 < DesiredRTPTenths

\* currentRTP > desiredRTP.
RtpAboveDesired(m) ==
    IF m.totalBet > 0 THEN m.totalWon * 1000 > DesiredRTPTenths * m.totalBet
    ELSE 0 > DesiredRTPTenths

\* Mutant: the high and the low subsets taken for one another.
IndexChoicesSwapped(delta, m) ==
    LET needsHigherRTP == HasEnoughData(m) /\ RtpBelowDesired(m)
        needsLowerRTP == HasEnoughData(m) /\ RtpAboveDesired(m) IN
    IF delta < 0 THEN {3, 5}
    ELSE IF delta = 0
    THEN (IF needsHigherRTP THEN {4}
          ELSE IF needsLowerRTP THEN {2, 6}
          ELSE {2, 4, 6})
    ELSE (IF needsHigherRTP THEN {1, 7}
          ELSE IF needsLowerRTP THEN {0, 8}
          ELSE {0, 1, 7, 8})

\* selectMultiplierIndex: the indices chooseFromIndices draws from.
IndexChoices(delta, m) ==
    LET needsHigherRTP == HasEnoughData(m) /\ RtpBelowDesired(m)
        needsLowerRTP == HasEnoughData(m) /\ RtpAboveDesired(m) IN
    IF delta < 0 THEN {3, 5}
    ELSE IF delta = 0
    THEN (IF needsHigherRTP THEN {2, 6}
          ELSE IF needsLowerRTP THEN {4}
          ELSE {2, 4, 6})
    ELSE (IF needsHigherRTP THEN {0, 8}
          ELSE IF needsLowerRTP THEN {1, 7}
          ELSE {0, 1, 7, 8})

\* multipliers[multiplierIndex], for a 0-based index.
MultiplierAt(multipliers, index) ==
    IF index + 1 \in DOMAIN multipliers THEN multipliers[index + 1] ELSE Undefined

\* determineMultiplierIndices: getRTPMetrics.
DetermineMultiplierIndices ==
    /\ engine.pc = "idle"
    /\ Len(engine.multipliers) >= 2
    /\ engine' = [engine EXCEPT !.pc = "select", !.metrics = rtp]
    /\ EngineFrame

\* determineMultiplierIndices: selectMultiplierIndex for every symbol, each
\* with its own random draw.
SelectMultiplierIndex ==
    /\ engine.pc = "select"
    /\ \E index \in [Symbols -> 0..8] :
          /\ \A s \in Symbols : index[s] \in IndexChoices(engine.delta[s], engine.metrics)
          /\ engine' = [engine EXCEPT
                 !.pc = "done",
                 !.decision = [s \in Symbols |->
                                 [index |-> index[s],
                                  multiplier |-> MultiplierAt(engine.multipliers, index[s])]]]
    /\ EngineFrame

\* ------------------------------------------------------------ specifications
CreditOutcomes == {"ok", "failed", "raise"}
DebitOutcomes == {"SUCCESS", "FAILED", "raise"}

Next ==
    \/ \E i \in Instances : RunGameLoop(i)
    \/ \E i \in Instances : RunGameLoopLockError(i)
    \/ \E i \in Instances : CheckMarketHealth(i)
    \/ \E i \in Instances : HandleEmergencyClose(i)
    \/ \E i \in Instances : TriggerRefundsRead(i)
    \/ \E i \in Instances, o \in CreditOutcomes : RefundCredit(i, o)
    \/ \E i \in Instances : RefundDelete(i)
    \/ \E i \in Instances : SetPaused(i)
    \/ \E i \in Instances : ProcessGameTick(i)
    \/ \E i \in Instances : StartBettingPhase(i)
    \/ \E i \in Instances : SaveBetting(i)
    \/ \E i \in Instances : StartAccumulationPhase(i)
    \/ \E i \in Instances : SaveAccumulation(i)
    \/ \E i \in Instances : StartDroppingPhase(i)
    \/ \E i \in Instances : SaveDropping(i)
    \/ \E i \in Instances : SavePayout(i)
    \/ \E t \in Txs : PlaceBetRead(t)
    \/ \E t \in Txs, o \in DebitOutcomes : PlaceBetDebit(t, o)
    \/ \E t \in Txs : PlaceBetAppend(t)
    \/ \E t \in Txs : CancelBetRead(t)
    \/ \E t \in Txs : CancelBetScript(t)
    \/ \E t \in Txs, o \in CreditOutcomes : CancelBetCredit(t, o)
    \/ \E k \in PayIds : PayoutRead(k)
    \/ \E k \in PayIds, o \in CreditOutcomes : PayoutCreditReply(k, o)
    \/ \E k \in PayIds : PayoutDeleteBets(k)
    \/ \E k \in PayIds : PayoutDeleteResults(k)
    \/ \E k \in PayIds : PayoutDeleteOnly(k)
    \/ SnapshotChange
    \/ Clock

\* The loops of all instances without players: the ledger stays empty.
NextHA ==
    \/ \E i \in Instances : RunGameLoop(i)
    \/ \E i \in Instances : RunGameLoopLockError(i)
    \/ \E i \in Instances : CheckMarketHealth(i)
    \/ \E i \in Instances : HandleEmergencyClose(i)
    \/ \E i \in Instances : TriggerRefundsRead(i)
    \/ \E i \in Instances : SetPaused(i)
    \/ \E i \in Instances : ProcessGameTick(i)
    \/ \E i \in Instances : StartBettingPhase(i)
    \/ \E i \in Instances : SaveBetting(i)
    \/ \E i \in Instances : StartAccumulationPhase(i)
    \/ \E i \in Instances : SaveAccumulation(i)
    \/ \E i \in Instances : StartDroppingPhase(i)
    \/ \E i \in Instances : SaveDropping(i)
    \/ \E i \in Instances : SavePayout(i)
    \/ \E k \in PayIds : PayoutRead(k)
    \/ \E k \in PayIds : PayoutDeleteOnly(k)
    \/ SnapshotChange
    \/ Clock

\* One payout task over a hash and results drawn from bounded sets.
StockLists == {<<1>>, <<1, 2>>, <<1, 2, 3>>}
WagerSet == {[amount |-> a, stocks |-> l] : a \in 1..MaxAmount, l \in StockLists}
MultiplierSet == {Absent, 5, 15}
FirstTask == <<1, 1>>

InitPayout ==
    /\ lease = NoLease
    /\ lockRes = [c \in Callers |-> "none"]
    /\ lockLog = NoCall
    /\ callerId = [c \in Callers |-> 1]
    /\ active = [i \in Instances |-> FALSE]
    /\ snap = "fresh"
    /\ market \in [Symbols -> MultiplierSet]
    /\ wager \in [Txs -> WagerSet]
    /\ st = Blob("PAYOUT", 1, RoundStocks("DROPPING"), <<1, "BETTING">>)
    /\ writer = NoWriter
    /\ pc = [i \in Instances |-> "idle"]
    /\ timer = [i \in Instances |-> 0]
    /\ loc = [i \in Instances |-> NoLocals]
    /\ nextRound = 2
    /\ \E n \in 0..MaxBets :
          bets = [r \in Rounds |-> [p \in Players |->
                     IF r = 1 THEN SelectSeq([k \in 1..n |-> k], LAMBDA t : PlayerOf(t) = p)
                     ELSE <<>>]]
    /\ results = [r \in Rounds |-> IF r = 1 THEN market ELSE NoResults]
    /\ events = {}
    /\ bpc = [t \in Txs |-> IF t \in HashTxs(bets[1]) THEN "accepted" ELSE "new"]
    /\ bround = [t \in Txs |-> [place |-> IF t \in HashTxs(bets[1]) THEN 1 ELSE 0, cancel |-> 0]]
    /\ debit = [t \in Txs |-> IF t \in HashTxs(bets[1]) THEN "SUCCESS" ELSE "none"]
    /\ refunds = [t \in Txs |-> [issued |-> 0, accepted |-> 0]]
    /\ wins = [t \in Txs |-> [issued |-> 0, accepted |-> 0, amount |-> 0]]
    /\ pay = [k \in PayIds |-> IF k = FirstTask THEN [NoTask EXCEPT !.pc = "read"] ELSE NoTask]
    /\ payEvents = {}
    /\ hashBefore = [t \in Txs |-> NoBets]
    /\ loops = [i \in Instances |-> NoLoops]
    /\ cast = NoCast
    /\ rtp = NoRtp
    /\ rec = NoRec
    /\ engine = NoEngine

NextPayout ==
    \/ PayoutRead(FirstTask)
    \/ \E o \in CreditOutcomes : PayoutCreditReply(FirstTask, o)
    \/ PayoutDeleteBets(FirstTask)
    \/ PayoutDeleteResults(FirstTask)
    \/ PayoutDeleteOnly(FirstTask)

Spec == Init /\ [][Next]_vars

\* The arguments a placeBet call may carry: an amount that is negative,
\* zero or positive; no symbol, one symbol, the same symbol twice, or one
\* more than the limit.
BetAmounts == {0 - 1, 0, 1}
BetSelections ==
    {<<>>, <<1>>, <<1, 1>>, [k \in 1..(MaxStocksPerBet + 1) |-> ((k - 1) % NumSymbols) + 1]}
BetInputs == {[amount |-> a, stocks |-> l] : a \in BetAmounts, l \in BetSelections}

\* Round 1 stands in BETTING, written by the leader; placeBet calls with
\* arbitrary arguments arrive.
InitBet ==
    /\ lease = NoLease
    /\ lockRes = [c \in Callers |-> "none"]
    /\ lockLog = NoCall
    /\ callerId = [c \in Callers |-> 1]
    /\ active = [i \in Instances |-> FALSE]
    /\ snap = "fresh"
    /\ market = FixedMarket
    /\ wager \in [Txs -> BetInputs]
    /\ st = Blob("BETTING", 1, {}, NoList)
    /\ writer = [inst |-> 1, held |-> TRUE]
    /\ pc = [i \in Instances |-> "idle"]
    /\ timer = [i \in Instances |-> 0]
    /\ loc = [i \in Instances |-> NoLocals]
    /\ nextRound = 2
    /\ bets = [r \in Rounds |-> NoBets]
    /\ results = [r \in Rounds |-> NoResults]
    /\ events = {}
    /\ bpc = [t \in Txs |-> "new"]
    /\ bround = [t \in Txs |-> [place |-> 0, cancel |-> 0]]
    /\ debit = [t \in Txs |-> "none"]
    /\ refunds = [t \in Txs |-> [issued |-> 0, accepted |-> 0]]
    /\ wins = [t \in Txs |-> [issued |-> 0, accepted |-> 0, amount |-> 0]]
    /\ pay = [k \in PayIds |-> NoTask]
    /\ payEvents = {}
    /\ hashBefore = [t \in Txs |-> NoBets]
    /\ loops = [i \in Instances |-> NoLoops]
    /\ cast = NoCast
    /\ rtp = NoRtp
    /\ rec = NoRec
    /\ engine = NoEngine

NextBet ==
    \/ \E t \in Txs : PlaceBetRead(t)
    \/ \E t \in Txs, o \in DebitOutcomes : PlaceBetDebit(t, o)
    \/ \E t \in Txs : PlaceBetAppend(t)

SpecBet == InitBet /\ [][NextBet]_vars

SpecHA == InitHA /\ [][NextHA]_vars

\* One running instance without players, whose awaited calls may throw.
NextFault ==
    \/ \E i \in Instances : RunGameLoop(i)
    \/ \E i \in Instances : RunGameLoopLockError(i)
    \/ \E i \in Instances : CheckMarketHealth(i)
    \/ \E i \in Instances : HandleEmergencyClose(i)
    \/ \E i \in Instances : TriggerRefundsRead(i)
    \/ \E i \in Instances : SetPaused(i)
    \/ \E i \in Instances : ProcessGameTick(i)
    \/ \E i \in Instances : StartBettingPhase(i)
    \/ \E i \in Instances : SaveBetting(i)
    \/ \E i \in Instances : StartAccumulationPhase(i)
    \/ \E i \in Instances : SaveAccumulation(i)
    \/ \E i \in Instances : StartDroppingPhase(i)
    \/ \E i \in Instances : SaveDropping(i)
    \/ \E i \in Instances : SavePayout(i)
    \/ \E i \in Instances : TickThrows(i)
    \/ \E i \in Instances : SaveThrows(i)
    \/ \E i \in Instances : SaveBettingStocksError(i)
    \/ \E k \in PayIds : PayoutRead(k)
    \/ \E k \in PayIds : PayoutDeleteOnly(k)
    \/ SnapshotChange
    \/ Clock

SpecFault == Init /\ [][NextFault]_vars

SpecPayout == InitPayout /\ [][NextPayout]_vars

\* One running instance without players that plays several rounds.
MaxRoundIds == 2
RoundIds == 1..MaxRoundIds

InitRounds ==
    /\ InitOver(RoundIds)
    /\ rtp = NoRtp
    /\ rec = NoRec
    /\ engine = NoEngine
    /\ callerId = [c \in Callers |-> 1]
    /\ active = [i \in Instances |-> i = 1]
    /\ snap \in {"fresh", "stale", "absent"}
    /\ market = FixedMarket
    /\ wager = FixedWagers

NextRounds ==
    \/ \E i \in Instances : RunGameLoop(i)
    \/ \E i \in Instances : RunGameLoopLockError(i)
    \/ \E i \in Instances : CheckMarketHealth(i)
    \/ \E i \in Instances : HandleEmergencyClose(i)
    \/ \E i \in Instances : TriggerRefundsRead(i)
    \/ \E i \in Instances : SetPaused(i)
    \/ \E i \in Instances : ProcessGameTick(i)
    \/ \E i \in Instances : StartBettingPhase(i)
    \/ \E i \in Instances : SaveBetting(i)
    \/ \E i \in Instances : StartAccumulationPhase(i)
    \/ \E i \in Instances : SaveAccumulation(i)
    \/ \E i \in Instances : StartDroppingPhase(i)
    \/ \E i \in Instances : SaveDropping(i)
    \/ \E i \in Instances : SavePayout(i)
    \/ \E k \in Instances \X RoundIds : PayoutRead(k)
    \/ \E k \in Instances \X RoundIds : PayoutDeleteOnly(k)
    \/ SnapshotChange
    \/ Clock

SpecRounds == InitRounds /\ [][NextRounds]_vars

\* One running instance or all of them, a reachable store and a snapshot
\* that is fresh on every tick: the steps of the healthy loop, each of which
\* is taken once it can be (the event loop runs a due timer and resumes an
\* awaited call), and time that goes on.
InitLive ==
    /\ InitOver(RoundIds)
    /\ rtp = NoRtp
    /\ rec = NoRec
    /\ engine = NoEngine
    /\ callerId = [c \in Callers |-> 1]
    /\ active \in {[i \in Instances |-> i = 1], [i \in Instances |-> TRUE]}
    /\ snap = "fresh"
    /\ market = FixedMarket
    /\ wager = FixedWagers

NextLive ==
    \/ \E i \in Instances : RunGameLoop(i)
    \/ \E i \in Instances : CheckMarketHealth(i)
    \/ \E i \in Instances : ProcessGameTick(i)
    \/ \E i \in Instances : StartBettingPhase(i)
    \/ \E i \in Instances : SaveBetting(i)
    \/ \E i \in Instances : StartAccumulationPhase(i)
    \/ \E i \in Instances : SaveAccumulation(i)
    \/ \E i \in Instances : StartDroppingPhase(i)
    \/ \E i \in Instances : SaveDropping(i)
    \/ \E i \in Instances : SavePayout(i)
    \/ \E k \in Instances \X RoundIds : PayoutRead(k)
    \/ \E k \in Instances \X RoundIds : PayoutDeleteOnly(k)
    \/ Clock

FairLive ==
    /\ \A i \in Instances :
          /\ WF_vars(RunGameLoop(i))
          /\ WF_vars(CheckMarketHealth(i))
          /\ WF_vars(ProcessGameTick(i))
          /\ WF_vars(StartBettingPhase(i))
          /\ WF_vars(SaveBetting(i))
          /\ WF_vars(StartAccumulationPhase(i))
          /\ WF_vars(SaveAccumulation(i))
          /\ WF_vars(StartDroppingPhase(i))
          /\ WF_vars(SaveDropping(i))
          /\ WF_vars(SavePayout(i))
    /\ WF_vars(Clock)

SpecLive == InitLive /\ [][NextLive]_vars /\ FairLive

\* The counters a sequence of recordBet calls may start from: unset, or close
\* to the limit on either side, with or without money counted.
StartCounters ==
    {[totalBet |-> m[1], totalWon |-> m[2], playCount |-> n] :
        m \in {<<0, 0>>, <<50000, 48000>>},
        n \in {0} \cup ((RtpLimitPlayCount - NumRecCalls)..(RtpLimitPlayCount + 1))}

\* recordBet calls made one after the other (each awaited by its caller).
InitRtp ==
    /\ InitCore
    /\ callerId = [c \in Callers |-> 1]
    /\ active = [i \in Instances |-> FALSE]
    /\ snap = "fresh"
    /\ market = FixedMarket
    /\ wager = FixedWagers
    /\ rtp \in StartCounters
    /\ rec = [NoRec EXCEPT !.start = rtp]
    /\ engine = NoEngine

NextRtp ==
    \/ \E c \in RecCalls : \E a \in 1..MaxAmount : NoCallRunning /\ RecordBetRead(c, a)
    \/ \E c \in RecCalls : ResetRTPMetrics(c)
    \/ \E c \in RecCalls : RecordBetIncrBet(c)
    \/ \E c \in RecCalls : RecordBetIncrCount(c)

SpecRtp == InitRtp /\ [][NextRtp]_vars

\* recordBet calls of concurrent placeBet requests: a call may start while
\* another is between two of its store commands.
NextRtpConcurrent ==
    \/ \E c \in RecCalls : \E a \in 1..MaxAmount : RecordBetRead(c, a)
    \/ \E c \in RecCalls : ResetRTPMetrics(c)
    \/ \E c \in RecCalls : RecordBetIncrBet(c)
    \/ \E c \in RecCalls : RecordBetIncrCount(c)

SpecRtpConcurrent == InitRtp /\ [][NextRtpConcurrent]_vars

\* The counters a decision may find: play count on either side of the
\* threshold; no money counted, or an RTP of 94.2, 96.5 or 98.2 percent.
DecisionCounters ==
    {[totalBet |-> m[1], totalWon |-> m[2], playCount |-> n] :
        m \in {<<0, 0>>, <<1000, 942>>, <<1000, 965>>, <<1000, 982>>},
        n \in {RtpThresholdPlayCount - 1, RtpThresholdPlayCount}}

\* One call of the decision engine at DROPPING entry.
InitEngine ==
    /\ InitCore
    /\ callerId = [c \in Callers |-> 1]
    /\ active = [i \in Instances |-> FALSE]
    /\ snap = "fresh"
    /\ market = FixedMarket
    /\ wager = FixedWagers
    /\ rtp \in DecisionCounters
    /\ rec = NoRec
    /\ \E m \in MultiplierArrays : \E d \in [Symbols -> Deltas] :
          engine = [NoEngine EXCEPT !.multipliers = m, !.delta = d]

NextEngine ==
    \/ DetermineMultiplierIndices
    \/ SelectMultiplierIndex

SpecEngine == InitEngine /\ [][NextEngine]_vars

\* ------------------------------------------------------------ round claims
\* C2 (as stated): every write of plinko:state:{M} is made by the instance
\* that holds lock:gameloop:{M} at the moment of the write.
C2_WriterHoldsLease == writer.held

\* A change of the stored phase or round that the round cycle allows.
CycleStep(a, b) ==
    \/ a.phase = "NONE" /\ b.phase \in {"BETTING", "PAUSED"}
    \/ b.phase = "PAUSED"
    \/ a.phase = "PAUSED" /\ b.phase = "BETTING"
    \/ a.phase = "BETTING" /\ b.phase = "ACCUMULATION" /\ b.round = a.round
    \/ a.phase = "ACCUMULATION" /\ b.phase = "DROPPING" /\ b.round = a.round
    \/ a.phase = "DROPPING" /\ b.phase = "PAYOUT" /\ b.round = a.round
    \/ a.phase = "PAYOUT" /\ b.phase = "BETTING" /\ b.round # a.round

\* C4 (as stated): every change of the stored phase follows the cycle
\* BETTING, ACCUMULATION, DROPPING, PAYOUT, BETTING of the next round, or
\* enters PAUSED, or leaves PAUSED for BETTING.
C4_PhaseCycle ==
    [][(st'.phase # st.phase \/ st'.round # st.round) => CycleStep(st, st')]_vars

\* C5 (as stated): the append script runs for a wager only while the stored
\* phase is BETTING for the round the wager is appended to.
C5_AppendOnlyInBetting ==
    [][\A t \in Txs :
          (bpc[t] = "append" /\ bpc'[t] = "accepted") =>
              (st.phase = "BETTING" /\ st.round = bround[t].place)]_vars

\* placeBet returned ACCEPTED and neither cancelBet nor the breaker took the wager.
Standing(t) ==
    /\ bpc[t] \in {"accepted", "CancelClosed", "NotFound"}
    /\ refunds[t].issued = 0

\* C6 (as stated): once a payout task of round R has read the hash, every
\* wager accepted for R that was neither cancelled nor refunded was read.
C6_AcceptedIsRead ==
    \A k \in PayIds :
        pay[k].pc \notin {"none", "read"} =>
            \A t \in Txs :
                (Standing(t) /\ bround[t].place = k[2]) => t \in pay[k].read

\* C7 (as stated): after cancelBet returned CANCELLED the wager is in no
\* list and the wallet accepted exactly one refund credit for it.
C7_CancelledRefunded ==
    \A t \in Txs :
        bpc[t] = "CANCELLED" =>
            t \notin AllHashTxs /\ refunds[t].accepted = 1

\* C8 (as stated): the tick that found the feed unhealthy during BETTING ends
\* with phase PAUSED, ROUND_CANCELLED emitted, a refund credit issued for
\* every wager of the round's hash, and the hash deleted.
C8_BreakerRefundsAll ==
    [][\A i \in Instances :
          (pc[i] = "set_paused" /\ pc'[i] = "idle" /\ loc[i].trip = "BETTING") =>
              /\ st'.phase = "PAUSED"
              /\ [type |-> "ROUND_CANCELLED", round |-> loc[i].round] \in events'
              /\ \A t \in loc[i].read : refunds'[t].issued >= 1
              /\ HashTxs(bets'[loc[i].round]) = {}]_vars

\* C10: a debit that did not reply SUCCESS ends placeBet with
\* InsufficientBalance, a debit that raised with WalletUnavailable, and in
\* both cases the wager is in no list; a wager in a list was debited.
C10_AppendAfterDebit ==
    \A t \in Txs :
        /\ debit[t] = "raise" => bpc[t] = "WalletUnavailable" /\ t \notin AllHashTxs
        /\ debit[t] = "FAILED" => bpc[t] = "InsufficientBalance" /\ t \notin AllHashTxs
        /\ t \in AllHashTxs => debit[t] = "SUCCESS"
        /\ bpc[t] \in {"append", "accepted"} => debit[t] = "SUCCESS"

\* C10 witness: one call was refused by the wallet, another found it
\* unreachable, and the round's lists hold neither.
C10_Witness ==
    \E t, u \in Txs :
        /\ debit[t] = "FAILED" /\ bpc[t] = "InsufficientBalance"
        /\ debit[u] = "raise" /\ bpc[u] = "WalletUnavailable"
        /\ AllHashTxs = {}

\* l2 holds the wagers of l1 other than t, each once, in l1's order.
IsListWithout(l2, l1, t) ==
    /\ ListTxs(l2) = ListTxs(l1) \ {t}
    /\ Len(l2) = Cardinality(ListTxs(l2))
    /\ \A i, j \in 1..Len(l2) :
          i < j => \E a, b \in 1..Len(l1) : a < b /\ l1[a] = l2[i] /\ l1[b] = l2[j]

\* No list of the hashes other than player p's of round r changes.
OtherListsKept(r, p) ==
    \A r2 \in Rounds : \A p2 \in Players :
        (r2 # r \/ p2 # p) => bets'[r2][p2] = bets[r2][p2]

\* C11: under every interleaving of one player's placeBet and cancelBet calls
\* in a round, a stored list holds only wagers that were appended and not
\* cancelled, each once; the append script puts the new wager behind the
\* list it found and drops nothing; the remove script takes out the wager of
\* the given transactionId and nothing else.
C11_ListExact ==
    /\ [](\A r \in Rounds : \A p \in Players :
            /\ Len(bets[r][p]) = Cardinality(ListTxs(bets[r][p]))
            /\ \A t \in ListTxs(bets[r][p]) :
                  /\ PlayerOf(t) = p /\ bround[t].place = r
                  /\ bpc[t] \in {"accepted", "CancelClosed", "c_script", "NotFound"})
    /\ [][\A t \in Txs :
            /\ (bpc[t] = "append" /\ bpc'[t] = "accepted") =>
                  /\ bets'[bround[t].place][PlayerOf(t)] =
                         bets[bround[t].place][PlayerOf(t)] \o <<t>>
                  /\ OtherListsKept(bround[t].place, PlayerOf(t))
            /\ (bpc[t] = "c_script" /\ bpc'[t] # "c_script") =>
                  /\ IsListWithout(bets'[bround[t].cancel][PlayerOf(t)],
                                   bets[bround[t].cancel][PlayerOf(t)], t)
                  /\ OtherListsKept(bround[t].cancel, PlayerOf(t))]_vars

\* C11 witness: wager 2 was appended behind wager 1 of the same player, and
\* wager 1 was then cancelled: the list holds wager 2 alone.
C11_Witness ==
    /\ PlayerOf(1) = PlayerOf(2)
    /\ bpc[1] \in {"c_credit", "CANCELLED", "CancellationFailed"}
    /\ bpc[2] = "accepted"
    /\ hashBefore[2][PlayerOf(2)] = <<1>>
    /\ bets[bround[2].place][PlayerOf(2)] = <<2>>

\* C12: when the remove script of cancelBet(t) finds the round's hash as the
\* append script of the placeBet that returned t left it, it leaves the hash
\* as that append script found it (the player's field unset when t was the
\* player's only wager).
C12_PlaceThenCancel ==
    [][\A t \in Txs :
          (/\ bpc[t] = "c_script" /\ bpc'[t] = "c_credit"
           /\ bround[t].cancel = bround[t].place
           /\ bets[bround[t].cancel] =
                 [hashBefore[t] EXCEPT ![PlayerOf(t)] = @ \o <<t>>])
          => bets'[bround[t].cancel] = hashBefore[t]]_vars

\* C12 witness: wager 2, appended behind wager 1, was cancelled and the hash
\* is again the one its append found.
C12_Witness ==
    /\ bpc[2] = "c_credit"
    /\ hashBefore[2][PlayerOf(2)] = <<1>>
    /\ bets[bround[2].cancel] = hashBefore[2]

\* ------------------------------------------------------------ tick claims
\* Instance i's timer fires and runGameLoop runs its first step.
TickStart(i) ==
    /\ active[i] /\ pc[i] = "idle" /\ timer[i] = 0
    /\ pc'[i] # "idle" \/ timer'[i] # 0

\* Instance i's tick ends.
TickEnd(i) == pc'[i] = "idle" /\ (pc[i] # "idle" \/ TickStart(i))

\* C30: a tick that finds the lease held by another instance, or whose
\* lease call does not return true, ends at once with the next tick armed
\* in 5 s: round state, results key, hash, broadcasts and wallet calls are
\* as before.
C30_NotLeaderTick ==
    [][\A i \in Instances :
        (TickStart(i) /\ (lease.value \notin {None, InstanceId(i)} \/ pc'[i] # "health")) =>
            /\ pc'[i] = "idle"
            /\ timer'[i] * UnitMs = NotLeaderDelayMs
            /\ loops'[i].site = "notLeader"
            /\ UNCHANGED <<st, writer, nextRound, bets, results, events, cast, payEvents,
                           debit, refunds, wins, pay>>]_vars

\* C30 witness: an instance that never wrote the state waits 5 s for its
\* next tick while the other one holds the lease and runs the round.
C30_Witness ==
    \E i \in Instances :
        /\ pc[i] = "idle" /\ timer[i] = Units(NotLeaderDelayMs)
        /\ loops[i] = [armed |-> TRUE, pending |-> 1, cleared |-> FALSE, site |-> "notLeader"]
        /\ lease.value \notin {None, InstanceId(i)}
        /\ st.phase = "BETTING" /\ writer.inst # i /\ cast.by # i

\* C22: a game:state broadcast carries the blob that the same call has just
\* written to the state key; a call whose write throws broadcasts nothing.
C22_WriteBeforeBroadcast ==
    [][/\ (cast' # cast /\ cast'.type = "state") =>
            /\ st'.phase = cast'.what /\ st'.round = cast'.round
            /\ writer'.inst = cast'.by
       /\ \A i \in Instances :
            (pc[i] \in SaveSteps /\ loops'[i].site = "catch" /\ writer' = writer /\ st' = st)
                => cast' = cast]_vars

\* C22 witness: the round's results are stored, which startDroppingPhase
\* does just before saveAndBroadcast, but the write of the DROPPING blob has
\* thrown: the stored blob and the last broadcast are the ACCUMULATION blob.
C22_Witness ==
    \E i \in Instances :
        /\ pc[i] = "idle" /\ loops[i].site = "catch"
        /\ st.phase = "ACCUMULATION" /\ results[st.round] # NoResults
        /\ cast = StateCast(i, st)

\* C23: every tick ends with exactly one pending timer for the market, and
\* there is never more than one.
C23_OnePendingTick ==
    /\ [](\A i \in Instances : loops[i].pending <= 1)
    /\ [][\A i \in Instances :
            TickEnd(i) => loops'[i].armed /\ loops'[i].pending = 1]_vars

\* C23 witness: a tick has armed a timer after cancelling the one armed
\* earlier in the same tick (startBettingPhase called by checkMarketHealth).
C23_Witness ==
    \E i \in Instances :
        /\ pc[i] = "idle"
        /\ loops[i] = [armed |-> TRUE, pending |-> 1, cleared |-> TRUE, site |-> "tick"]

\* The phases of a round.
RoundPhases == {"BETTING", "ACCUMULATION", "DROPPING", "PAYOUT"}

\* C32: a tick that reads a blob whose endTime lies ahead leaves the stored
\* state alone and arms the next tick after min(endTime - now, 1000 ms); and
\* the stored phase and roundId of a blob whose endTime lies ahead change
\* only by the circuit breaker's PAUSED write.
C32_PhaseHeldUntilEnd ==
    [][/\ \A i \in Instances :
            (pc[i] = "tick_get" /\ pc'[i] # "tick_get" /\ loops'[i].site # "catch"
                /\ st.phase \in RoundPhases /\ st.left > 0) =>
                    /\ st' = st
                    /\ pc'[i] = "idle"
                    /\ timer'[i] = Units(Min(st.left * UnitMs, 1000))
       /\ (st.phase \in RoundPhases /\ st.left > 0
              /\ (st'.phase # st.phase \/ st'.round # st.round)) =>
                    st' = PausedState]_vars

\* C29: a tick that ends in runGameLoop's catch has armed the next tick in
\* 5 s and leaves the stored phase and roundId as they were when it began.
C29_ThrowKeepsState ==
    [][\A i \in Instances :
        (loops[i].site # "catch" /\ loops'[i].site = "catch") =>
            /\ pc'[i] = "idle"
            /\ timer'[i] * UnitMs = ErrorDelayMs
            /\ st'.phase = loc[i].start.phase
            /\ st'.round = loc[i].start.round]_vars

\* C26: a leader's tick that finds a fresh snapshot and the stored phase
\* PAUSED broadcasts OPEN and ends with a BETTING blob of a fresh roundId
\* written by it; the stored phase leaves PAUSED by that write only.
C26_RecoveryEntersBetting ==
    [][/\ \A i \in Instances :
            /\ (pc[i] = "health" /\ snap = "fresh" /\ st.phase = "PAUSED"
                    /\ pc'[i] # "health") => cast' = StatusCast(i, "OPEN")
            /\ (loc[i].fromHealth /\ pc'[i] = "idle") =>
                    /\ st'.phase = "BETTING" /\ st'.round = nextRound - 1
                    /\ writer'.inst = i
       /\ (st.phase = "PAUSED" /\ st'.phase # "PAUSED") =>
            \E j \in Instances :
                loc[j].fromHealth /\ pc[j] = "sb_save" /\ st'.phase = "BETTING"]_vars

\* ------------------------------------------------------------ payout claims
\* The payout task has run its loop over a hash with results.
PayoutLooped == pay[FirstTask].pc \in {"credits", "del_bets", "del_results", "done"}

\* The exact payout of a set of wagers under the round's results.
ExactPayout(S) == SumSet(S, [t \in Txs |-> BetWin(wager[t], market)])

CreditsIssued == SumSet(Txs, [t \in Txs |-> wins[t].issued * wins[t].amount])

EventsPayout == SumSet(payEvents, [e \in payEvents |-> e.body.totalPayout])

\* C9 (as stated): the win credits issued, and the totalPayout of the
\* game:payout events, both sum to the exact payout of the hash.
C9_SumsExact ==
    PayoutLooped =>
        /\ CreditsIssued = ExactPayout(pay[FirstTask].read)
        /\ EventsPayout = ExactPayout(pay[FirstTask].read)

\* C9 (amended): the win credits issued sum to the exact payout of the
\* hash; each event's totalPayout is a whole number of cents within half a
\* cent of the exact payout of its player's wagers.
C9_CreditsExactEventsRounded ==
    PayoutLooped =>
        /\ CreditsIssued = ExactPayout(pay[FirstTask].read)
        /\ \A p \in Players :
              pay[FirstTask].read \cap {t \in Txs : PlayerOf(t) = p} # {} =>
                  \E e \in payEvents :
                      /\ e.body.player = p
                      /\ e.body.totalPayout % Cent = 0
                      /\ LET x == ExactPayout({t \in pay[FirstTask].read : PlayerOf(t) = p})
                             d == e.body.totalPayout - x IN
                         2 * d <= Cent /\ 2 * d > 0 - Cent
        /\ Cardinality(payEvents) =
              Cardinality({PlayerOf(t) : t \in pay[FirstTask].read})

\* C9 witness: a run paid out an amount that is not a whole number of cents.
C9_Witness ==
    /\ PayoutLooped
    /\ CreditsIssued > 0
    /\ CreditsIssued % Cent # 0
    /\ EventsPayout # CreditsIssued

\* C27: a run of processRoundPayouts that found the results key missing, or
\* the hash missing or empty, deletes the hash and returns: it issues no
\* credit and emits no game:payout; and every such run takes that path.
C27_NothingToPay ==
    LET task == pay[FirstTask] IN
    /\ task.pc \in {"del_only", "returned"} =>
          /\ \A t \in Txs : wins[t].issued = 0
          /\ payEvents = {}
    /\ task.pc = "returned" => bets[FirstTask[2]] = NoBets
    /\ (task.pc \notin {"none", "read"} /\ (market = NoResults \/ task.read = {})) =>
          task.pc \in {"del_only", "returned"}

\* C27 witness: the run found wagers in the hash but no results, and returned.
C27_Witness ==
    /\ pay[FirstTask].pc = "returned"
    /\ pay[FirstTask].read # {}
    /\ market = NoResults
    /\ bets[FirstTask[2]] = NoBets

\* C28: once the loop of processRoundPayouts has run, a credit was issued for
\* every winning wager of the hash and a game:payout emitted to every player
\* with wagers in it, with the totals computed from the player's list; and
\* the run goes on to delete the hash and the results key whatever the
\* replies to the credits were.
C28_CreditFailureIsolated ==
    LET task == pay[FirstTask]
        r == FirstTask[2] IN
    /\ (task.pc \notin {"none", "read"} /\ market # NoResults /\ task.read # {}) =>
          /\ task.pc \in {"credits", "del_bets", "del_results", "done"}
          /\ \A t \in task.read :
                wins[t].issued = (IF BetWin(wager[t], market) > 0 THEN 1 ELSE 0)
          /\ \A p \in {PlayerOf(t) : t \in task.read} :
                \E e \in payEvents :
                    /\ e.round = r /\ e.body.player = p
                    /\ e.body.totalPayout =
                          ToFixed2(ExactPayout({t \in task.read : PlayerOf(t) = p}))
    /\ task.pc \in {"del_results", "done"} => bets[r] = NoBets
    /\ task.pc = "done" => results[r] = NoResults

\* C28 witness: the run ended after one win credit raised and another one
\* was accepted.
C28_Witness ==
    /\ pay[FirstTask].pc = "done"
    /\ \E t1, t2 \in pay[FirstTask].read :
          /\ wins[t1].issued = 1 /\ wins[t1].accepted = 0
          /\ wins[t2].issued = 1 /\ wins[t2].accepted = 1
    /\ payEvents # {}

\* ------------------------------------------------------------ placeBet claims
\* C24: during BETTING a placeBet whose amount is zero or negative fails with
\* InvalidAmount, and one whose selection is empty or longer than 20 symbols
\* fails with InvalidSelection; the step issues no wallet debit and leaves
\* the hash as it was, and the call never issues one or appends later.
C24_InvalidInputs ==
    /\ [](\A t \in Txs :
            bpc[t] \in {"InvalidAmount", "InvalidSelection"} =>
                debit[t] = "none" /\ t \notin AllHashTxs)
    /\ [][\A t \in Txs :
            (bpc[t] = "new" /\ bpc'[t] # "new" /\ st.phase = "BETTING") =>
                /\ wager[t].amount <= 0 =>
                      bpc'[t] = "InvalidAmount" /\ UNCHANGED <<bets, debit>>
                /\ (wager[t].amount > 0 /\ Len(wager[t].stocks) \in {0} \cup (21..100)) =>
                      bpc'[t] = "InvalidSelection" /\ UNCHANGED <<bets, debit>>
                /\ (wager[t].amount > 0 /\ Len(wager[t].stocks) \in 1..20) =>
                      bpc'[t] = "debit"]_vars

\* C24 witness: one call was refused for a negative amount and another for
\* a selection of 21 symbols; neither was debited or appended.
C24_Witness ==
    \E t1, t2 \in Txs :
        /\ bpc[t1] = "InvalidAmount" /\ wager[t1].amount < 0
        /\ bpc[t2] = "InvalidSelection" /\ Len(wager[t2].stocks) = MaxStocksPerBet + 1
        /\ debit[t1] = "none" /\ debit[t2] = "none"
        /\ AllHashTxs = {}

\* The symbols of a selection are pairwise distinct.
Distinct(l) == \A j, k \in 1..Len(l) : j # k => l[j] # l[k]

\* C31 (as stated): every wager in the hash has amount > 0 and between 1
\* and 20 pairwise distinct symbols.
C31_StoredWagersDistinct ==
    \A t \in AllHashTxs :
        /\ wager[t].amount > 0
        /\ Len(wager[t].stocks) \in 1..20
        /\ Distinct(wager[t].stocks)

\* C31 (amended): every wager in the hash has amount > 0 and between 1 and
\* 20 symbols, which may repeat.
C31_StoredWagersValid ==
    \A t \in AllHashTxs :
        /\ wager[t].amount > 0
        /\ Len(wager[t].stocks) \in 1..20

\* C31 witness: a wager naming the same symbol twice is in the hash.
C31_Witness ==
    \E t \in AllHashTxs :
        /\ bpc[t] = "accepted"
        /\ ~Distinct(wager[t].stocks)
        /\ wager[t].amount > 0

\* ------------------------------------------------------------ cancelBet claims
\* C25: a cancelBet whose refund credit raised has failed with
\* CancellationFailed; its wager is in no list of the hash, and from then on
\* no refund and no win credit is issued for it.
C25_FailedCancelStaysRemoved ==
    /\ [](\A t \in Txs : bpc[t] = "CancellationFailed" => t \notin AllHashTxs)
    /\ [][\A t \in Txs :
            bpc[t] = "CancellationFailed" =>
                refunds'[t] = refunds[t] /\ wins'[t] = wins[t]]_vars

\* ------------------------------------------------------------ decision engine claims
\* C13 (as stated): for every multiplier array of length B >= 2, each
\* decision's multiplierIndex is in 0..B-1 and a symbol with a negative delta
\* gets multiplier 0.
C13_IndexInRangeRedZero ==
    engine.pc = "done" =>
        \A s \in Symbols :
            /\ engine.decision[s].index \in 0..(Len(engine.multipliers) - 1)
            /\ engine.delta[s] < 0 => engine.decision[s].multiplier = 0

\* The set the policy table gives for a delta >= 0 under metrics m.
PolicySet(delta, m) ==
    IF m.playCount >= RtpThresholdPlayCount /\ m.totalBet > 0
          /\ m.totalWon * 1000 < DesiredRTPTenths * m.totalBet
    THEN (IF delta = 0 THEN {2, 6} ELSE {0, 8})
    ELSE IF m.playCount >= RtpThresholdPlayCount /\ m.totalBet > 0
          /\ m.totalWon * 1000 > DesiredRTPTenths * m.totalBet
    THEN (IF delta = 0 THEN {4} ELSE {1, 7})
    ELSE IF m.playCount >= RtpThresholdPlayCount /\ m.totalBet = 0
    THEN (IF delta = 0 THEN {2, 6} ELSE {0, 8})
    ELSE (IF delta = 0 THEN {2, 4, 6} ELSE {0, 1, 7, 8})

\* C14: with the default multipliers, the index of a symbol with delta >= 0
\* is in the set of the policy table: the high subset when playCount >=
\* threshold and currentRTP < desired (currentRTP is 0 when nothing was bet),
\* the low subset when playCount >= threshold and currentRTP > desired, the
\* full zone otherwise; and the multiplier is the array's entry at the index.
C14_PolicyTable ==
    (engine.pc = "done" /\ engine.multipliers = DefaultMultipliers) =>
        \A s \in Symbols :
            engine.delta[s] >= 0 =>
                /\ engine.decision[s].index \in PolicySet(engine.delta[s], engine.metrics)
                /\ engine.decision[s].multiplier =
                      DefaultMultipliers[engine.decision[s].index + 1]

\* C14 witness: RTP 94.2 percent after enough plays: a rising symbol on
\* index 8 (5x) and a flat one on index 6 (1.2x).
C14_Witness ==
    /\ engine.pc = "done"
    /\ engine.multipliers = DefaultMultipliers
    /\ engine.metrics = [totalBet |-> 1000, totalWon |-> 942,
                         playCount |-> RtpThresholdPlayCount]
    /\ \E s1, s2 \in Symbols :
          /\ engine.delta[s1] > 0 /\ engine.decision[s1] = [index |-> 8, multiplier |-> 50]
          /\ engine.delta[s2] = 0 /\ engine.decision[s2] = [index |-> 6, multiplier |-> 12]

\* ------------------------------------------------------------ RTP tracker claims
\* The amounts of the calls that returned, from the k-th on, summed.
RECURSIVE SumFrom(_)
SumFrom(k) ==
    IF k > Len(rec.order) THEN 0
    ELSE rec.call[rec.order[k]].amount + SumFrom(k + 1)

\* The number of calls that enter below the limit when the sequence starts
\* from rec.start.
CallsBelowLimit ==
    IF rec.start.playCount >= RtpLimitPlayCount THEN 0
    ELSE RtpLimitPlayCount - rec.start.playCount

\* C17: after any number of recordBet calls made one after the other from
\* any counters: while no call entered at the limit, playCount grew by the
\* number of calls and totalBet by the sum of their amounts, and nothing was
\* deleted; once a call entered at the limit, the key was deleted once and
\* playCount counts the calls from that one on, starting at 1.
C17_SequentialCounts ==
    NoCallRunning =>
        IF Len(rec.order) <= CallsBelowLimit
        THEN /\ rec.deleted = 0
             /\ rtp.playCount = rec.start.playCount + Len(rec.order)
             /\ rtp.totalBet = rec.start.totalBet + SumFrom(1)
             /\ rtp.totalWon = rec.start.totalWon
        ELSE /\ rec.deleted = 1
             /\ rtp.playCount = Len(rec.order) - CallsBelowLimit
             /\ rtp.totalBet = SumFrom(CallsBelowLimit + 1)
             /\ rtp.totalWon = 0

\* C17 witness: three calls from playCount = limit - 1: the second one found
\* the limit reached, the key was deleted once and playCount is 2.
C17_Witness ==
    /\ NoCallRunning
    /\ Len(rec.order) = 3
    /\ rec.start.playCount = RtpLimitPlayCount - 1
    /\ rec.deleted = 1
    /\ rtp.playCount = 2

\* C18: when a recordBet(M, a) that found playCount >= limit has returned
\* (calls made one after the other), the counters are playCount = 1,
\* totalBet = a and totalWon = 0.
C18_ResetThenCount ==
    (NoCallRunning /\ rec.order # <<>>) =>
        LET last == rec.call[rec.order[Len(rec.order)]] IN
        last.seen >= RtpLimitPlayCount =>
            rtp = [totalBet |-> last.amount, totalWon |-> 0, playCount |-> 1]

\* C18 witness: a call entered with playCount = limit, totalBet = 50000 and
\* totalWon = 48000 has returned.
C18_Witness ==
    /\ NoCallRunning
    /\ Len(rec.order) = 1
    /\ rec.start = [totalBet |-> 50000, totalWon |-> 48000, playCount |-> RtpLimitPlayCount]
    /\ rtp.playCount = 1

\* The append script of placeBet(t) has run: the call returned ACCEPTED.
Appended(t) ==
    bpc[t] \in {"accepted", "CancelClosed", "c_script", "NotFound", "c_credit",
                "CANCELLED", "CancellationFailed"}

\* C15 (as stated): a recordBet(M, amount) has completed for every wager
\* before it entered the hash, so playCount and totalBet of the market count
\* every accepted wager.
C15_AcceptedIsRecorded ==
    LET acc == {t \in Txs : Appended(t)} IN
    /\ rtp.playCount >= Cardinality(acc)
    /\ rtp.totalBet >= SumSet(acc, [t \in Txs |-> wager[t].amount])

\* C16 (as stated): once processRoundPayouts has run for a round, totalWon
\* has grown by the sum of the payouts of the round's wagers.
C16_WinsRecorded ==
    pay[FirstTask].pc = "done" =>
        rtp.totalWon * Scale = ExactPayout(pay[FirstTask].read)

\* ------------------------------------------------------------ blob claims
\* C21: in every stored blob of phase BETTING or ACCUMULATION no stock
\* carries multiplierIndex or multiplier, and in every stored blob of phase
\* DROPPING or PAYOUT every stock carries both.
C21_MultiplierFields ==
    /\ st.phase \in {"BETTING", "ACCUMULATION"} =>
          st.stocks \cap {"multiplierIndex", "multiplier"} = {}
    /\ st.phase \in {"DROPPING", "PAYOUT"} =>
          {"multiplierIndex", "multiplier"} \subseteq st.stocks

\* C19: in every blob stored under plinko:state:{M}, canUnbet is true if and
\* only if the phase is BETTING.
C19_CanUnbetIffBetting ==
    st.phase # "NONE" => (st.canUnbet = "true" <=> st.phase = "BETTING")

\* C19 witness: a stored ACCUMULATION blob with canUnbet false, written
\* after the round's BETTING blob.
C19_Witness ==
    /\ st.phase = "ACCUMULATION"
    /\ st.canUnbet = "false"
    /\ st.round >= 1

\* C20 (as stated): every stored blob, PAUSED included, carries serverTime
\* and endTime, and endTime is not before serverTime.
C20_BlobTimed ==
    st.phase # "NONE" => (st.timed /\ st.span >= 0)

\* ------------------------------------------------------------ round claims
\* C33: a fresh roundId is drawn only by startBettingPhase, for the BETTING
\* blob it builds; a stored ACCUMULATION, DROPPING or PAYOUT blob carries the
\* roundId and the symbol list of the BETTING blob of its round; a BETTING
\* write stores the roundId drawn last, which no earlier round had.
C33_RoundIdentity ==
    /\ [](st.phase \in RoundPhases =>
            /\ st.round \in 1..(nextRound - 1)
            /\ st.list = <<st.round, "BETTING">>)
    /\ [][/\ nextRound' # nextRound =>
               (\E i \in Instances :
                   /\ pc[i] = "sb_snap"
                   /\ nextRound' = nextRound + 1
                   /\ loc'[i].blob.phase = "BETTING"
                   /\ loc'[i].blob.round = nextRound)
          /\ ((st'.phase # st.phase \/ st'.round # st.round) /\ st'.phase = "BETTING") =>
                   st'.round = nextRound - 1 /\ st'.round > st.round]_vars

\* The second round reached PAYOUT.
C33_Witness ==
    /\ st.phase = "PAYOUT"
    /\ st.round = MaxRoundIds
    /\ results[1] # NoResults
    /\ results[st.round] # NoResults

\* ------------------------------------------------------------ breaker claims
\* C34: the loop emits ROUND_CANCELLED only in handleEmergencyClose, while
\* BETTING or ACCUMULATION is stored, for the stored round;
\* it sends a market_outage refund only for a round it has cancelled so; an
\* unhealthy tick that finds PAUSED stored ends without a refund, a state
\* write, an event or a broadcast.
C34_BreakerRefunds ==
    [][\A i \in Instances :
          /\ (pc[i] = "ec_get" /\ events' # events) =>
                  /\ st.phase \in {"BETTING", "ACCUMULATION"}
                  /\ events' = events \cup {[type |-> "ROUND_CANCELLED", round |-> st.round]}
          /\ (pc[i] = "rf_credit" /\ refunds' # refunds) =>
                  /\ [type |-> "ROUND_CANCELLED", round |-> loc[i].round] \in events
          /\ (pc[i] = "health" /\ pc'[i] # "health" /\ snap # "fresh"
                  /\ st.phase = "PAUSED") =>
                  /\ pc'[i] = "idle"
                  /\ UNCHANGED <<st, writer, cast, events, refunds, bets>>]_vars

\* A refunded round is PAUSED and the next unhealthy tick is under way.
C34_Witness ==
    /\ st = PausedState
    /\ snap # "fresh"
    /\ \E i \in Instances : pc[i] = "health" /\ cast = StatusCast(i, "CLOSED")
    /\ \E t \in Txs :
          /\ bpc[t] = "accepted"
          /\ refunds[t].accepted = 1
          /\ [type |-> "ROUND_CANCELLED", round |-> bround[t].place] \in events

\* ------------------------------------------------------------ payout start claims
\* The instances that have started processRoundPayouts for round r.
Invoked(r) == {i \in Instances : pay[<<i, r>>].pc # "none"}

\* C35: processRoundPayouts is started at most once for a roundId, by the
\* step that stores the PAYOUT blob of that round, and no wager is sent more
\* than one win credit.
C35_PayoutOnce ==
    /\ [](\A r \in Rounds : Cardinality(Invoked(r)) <= 1)
    /\ [](\A t \in Txs : wins[t].issued <= 1)
    /\ [][\A k \in PayIds :
            (pay[k].pc = "none" /\ pay'[k].pc # "none") =>
                /\ st'.phase = "PAYOUT"
                /\ st'.round = k[2]
                /\ writer'.inst = k[1]]_vars

\* ------------------------------------------------------------ settlement claims
\* Wager t was debited and appended, sits in the hash of its round, has had
\* no refund and no win credit, and nothing that could settle it is left:
\* the stored state is PAUSED, which carries no roundId, no tick is under
\* way and no payout task of its round was started.
Stranded(t) ==
    /\ bpc[t] = "accepted"
    /\ debit[t] = "SUCCESS"
    /\ t \in HashTxs(bets[bround[t].place])
    /\ refunds[t].issued = 0
    /\ wins[t].issued = 0
    /\ st = PausedState
    /\ \A i \in Instances : pc[i] = "idle" /\ loc[i] = NoLocals
    /\ \A i \in Instances : pay[<<i, bround[t].place>>].pc = "none"

\* C36: no debited and appended wager is left without settlement.
C36_NoWagerStranded == \A t \in Txs : ~Stranded(t)

\* C37: no wager is sent more than one refund credit, whether by cancelBet
\* or by triggerRefunds.
C37_OneRefund == \A t \in Txs : refunds[t].issued <= 1

\* ------------------------------------------------------------ lease renewal claims
\* C38: the lease of a running instance does not run out and does not pass
\* to another instance while that instance waits for the tick it has armed.
C38_LeaseOutlastsWait ==
    [][\A i \in Instances :
          (lease.value = InstanceId(i) /\ active[i] /\ pc[i] = "idle" /\ timer'[i] > 0) =>
              lease'.value = lease.value]_vars

\* ------------------------------------------------------------ progress claims
\* C39: a round that has entered BETTING reaches PAYOUT, and a round in
\* PAYOUT is followed by the BETTING phase of the next roundId, for every
\* roundId the ledger has a successor for; no round is given up on the way:
\* the stored roundId of a round that has not reached PAYOUT stays.
C39_RoundsProgress ==
    /\ [][st.phase \in {"BETTING", "ACCUMULATION", "DROPPING"} =>
              st'.round = st.round]_vars
    /\ \A r \in RoundIds :
          (st.phase = "BETTING" /\ st.round = r) ~> (st.phase = "PAYOUT" /\ st.round = r)
    /\ \A r \in RoundIds \ {MaxRoundIds} :
          (st.phase = "PAYOUT" /\ st.round = r) ~> (st.phase = "BETTING" /\ st.round = r + 1)

\* ------------------------------------------------------------ concurrent recordBet claims
\* C40: whatever the interleaving of the recordBet calls, the key is deleted
\* at most once for one crossing of the limit, a play count that started at
\* or below the limit stays at or below it, and once every call has returned
\* after a reset the counters hold the calls made from the resetting one on.
C40_ConcurrentCounts ==
    /\ rec.deleted <= 1
    /\ rec.start.playCount <= RtpLimitPlayCount => rtp.playCount <= RtpLimitPlayCount
    /\ (Len(rec.order) = NumRecCalls /\ rec.deleted = 1) =>
           LET since == {c \in RecCalls : rec.call[c].seen >= RtpLimitPlayCount
                                           \/ rec.call[c].seen < rec.start.playCount} IN
           /\ rtp.playCount = Cardinality(since)
           /\ rtp.totalBet = SumSet(since, [c \in RecCalls |-> rec.call[c].amount])

====
